---- MODULE Spec2Model ----
(***************************************************************************)
(* PhysicsKit vehicle dynamics core: World (fixed-timestep accumulator     *)
(* loop) driving a Car (rigid body, four tires, suspension, steering,      *)
(* drivetrain, handbrake).                                                 *)
(*                                                                         *)
(* The program computes in IEEE doubles; the model computes in fixed       *)
(* point on integers.  Units:                                              *)
(*   time                      1e-4 s   (TU)                               *)
(*   dimensionless, sin, cos   1e-3     (MILLI is 1.0)                     *)
(*   body yaw, yaw rate        1e-5 rad, 1e-5 rad/s                        *)
(*   other angles              1e-3 rad (mrad); slip angle also in 1e-3 deg*)
(*   length, velocity          1e-4 m, 1e-4 m/s                            *)
(*   acceleration              1e-3 m/s^2                                  *)
(*   wheel spin                1e-3 rad/s                                  *)
(*   force, torque, mass       N, N*m, kg                                  *)
(*   filtered tire force       1e-3 N (the relaxation filter's state)       *)
(*   engine speed              rpm                                         *)
(* Division truncates toward zero, so that the arithmetic is odd-symmetric *)
(* like the floating point it stands for.  The math library (sin, cos,     *)
(* atan, atan2, tan, exp, sqrt) is replaced by fixed-point approximations. *)
(***************************************************************************)
EXTENDS Integers, Sequences, FiniteSets, TLC

(***************************************************************************)
(* Fixed-point arithmetic and the math library                             *)
(***************************************************************************)
MILLI == 1000
PI == 3142
YAW_PI == 314159
TU_PER_SEC == 10000

Abs(a) == IF a < 0 THEN -a ELSE a
Max(a, b) == IF a >= b THEN a ELSE b
Min(a, b) == IF a <= b THEN a ELSE b
Max3(a, b, c) == Max(a, Max(b, c))

\* a / b truncated toward zero (b # 0)
Div(a, b) ==
  IF (a >= 0) = (b > 0) THEN Abs(a) \div Abs(b) ELSE -(Abs(a) \div Abs(b))

\* a * b / c with the intermediate product kept inside 32 bits when
\* |b| and c are at most a few ten thousand: a = q*c + r, a*b/c = q*b + r*b/c
MulDiv(a, b, c) == Div(a, c) * b + Div((a - Div(a, c) * c) * b, c)

\* math.copysign(mag, s)
copysign(mag, s) == IF s < 0 THEN -Abs(mag) ELSE Abs(mag)

RECURSIVE ISqrtIter(_, _, _)
\* bisection for floor(sqrt(n)) between lo and hi
ISqrtIter(n, lo, hi) ==
  IF lo >= hi THEN lo
  ELSE IF ((lo + hi + 1) \div 2) * ((lo + hi + 1) \div 2) <= n
       THEN ISqrtIter(n, (lo + hi + 1) \div 2, hi)
       ELSE ISqrtIter(n, lo, (lo + hi + 1) \div 2 - 1)

\* floor(sqrt(n)) for 0 <= n < 2^26
ISqrt(n) == ISqrtIter(n, 0, 8191)

\* sqrt(m*m + s*s) for m >= s >= 0, through the ratio r = s / m
HypotRatio(m, r) == MulDiv(m, ISqrt(MILLI * MILLI + r * r), MILLI)

\* math.sqrt(x*x + y*y), same unit as x and y
Hypot(x, y) ==
  IF x = 0 /\ y = 0 THEN 0
  ELSE HypotRatio(Max(Abs(x), Abs(y)),
                  MulDiv(Min(Abs(x), Abs(y)), MILLI, Max(Abs(x), Abs(y))))

\* angle in mrad wrapped into [-PI, PI)
WrapAngle(x) == ((x + PI) % (2 * PI)) - PI

\* math.sin on [0, PI] mrad (Bhaskara's rational approximation), in MILLI
SinPos(y) == (16 * y * (PI - y)) \div ((5 * PI * PI - 4 * y * (PI - y)) \div MILLI)

\* sine of an angle already wrapped into [-PI, PI)
SinWrapped(w) == IF w >= 0 THEN SinPos(w) ELSE -SinPos(-w)

\* math.sin, math.cos: mrad -> MILLI
Sin(x) == SinWrapped(WrapAngle(x))
Cos(x) == Sin(x + PI \div 2)

\* atan(z) ~ z / (1 + 0.28125 z^2) for 0 <= z <= 1: MILLI -> mrad
AtanOctant(z) == (z * MILLI) \div (MILLI + (281 * ((z * z) \div MILLI)) \div MILLI)

\* atan2 of non-negative operands: the first quadrant
AtanQuadrant(ay, ax) ==
  IF ax = 0 /\ ay = 0 THEN 0
  ELSE IF ay > ax THEN PI \div 2 - AtanOctant(MulDiv(ax, MILLI, ay))
  ELSE AtanOctant(MulDiv(ay, MILLI, ax))

\* the quadrant angle q moved to the half plane of x and the sign of y
AtanPlace(q, y, x) ==
  IF y < 0 THEN (IF x < 0 THEN -(PI - q) ELSE -q)
  ELSE (IF x < 0 THEN PI - q ELSE q)

\* math.atan2(y, x): operands in any common unit -> mrad
Atan2(y, x) == AtanPlace(AtanQuadrant(Abs(y), Abs(x)), y, x)

\* math.atan(z): MILLI -> mrad
Atan(z) == Atan2(z, MILLI)

\* math.tan(x): mrad -> MILLI, for |x| < PI/2
Tan(x) == Div(Sin(x) * MILLI, Cos(x))

\* 1 + a + a^2/2 + a^3/6 + a^4/24 for 0 <= a <= 8 (MILLI)
ExpSeries(a) ==
  MILLI + a + ((a * a) \div MILLI) \div 2
  + ((((a * a) \div MILLI) * a) \div MILLI) \div 6
  + ((((((a * a) \div MILLI) * a) \div MILLI) * a) \div MILLI) \div 24

\* math.exp(-x) for x in MILLI: result in MILLI.  Beyond |x| = 8 the result
\* is 0 (x > 0) or the value at 8 (x < 0).
ExpNeg(x) ==
  IF x >= 8 * MILLI THEN 0
  ELSE IF x >= 0 THEN (MILLI * MILLI) \div ExpSeries(x)
  ELSE ExpSeries(Min(-x, 8 * MILLI))

\* math.degrees / math.radians: mrad <-> 1e-3 deg
degrees(r) == MulDiv(r, 57296, MILLI)
radians(d) == MulDiv(d, MILLI, 57296)

\* clamp of vector.py, used inline as max(lo, min(hi, v)) by the program
clamp(v, lo, hi) == Max(lo, Min(hi, v))

\* normalize_angle with each loop run at most once
normalize_angle_once(angle) ==
  IF angle > YAW_PI THEN angle - 2 * YAW_PI
  ELSE IF angle < -YAW_PI THEN angle + 2 * YAW_PI
  ELSE angle

\* normalize_angle of vector.py, on body yaw (1e-5 rad)
RECURSIVE normalize_angle(_)
normalize_angle(angle) ==
  IF angle > YAW_PI THEN normalize_angle(angle - 2 * YAW_PI)
  ELSE IF angle < -YAW_PI THEN normalize_angle(angle + 2 * YAW_PI)
  ELSE angle

\* Vector3.rotate_z(angle) with the sine and cosine already taken
RotX(x, y, c, s) == MulDiv(x, c, MILLI) - MulDiv(y, s, MILLI)
RotY(x, y, c, s) == MulDiv(x, s, MILLI) + MulDiv(y, c, MILLI)

(***************************************************************************)
(* Configuration                                                           *)
(***************************************************************************)
Wheels == {"FL", "FR", "RL", "RR"}
FrontWheels == {"FL", "FR"}

\* one value per wheel, as the code's per-wheel dictionaries and WheelLoads
PerWheel(Op(_)) == [FL |-> Op("FL"), FR |-> Op("FR"), RL |-> Op("RL"), RR |-> Op("RR")]

RECURSIVE Indices(_)
\* the list range(1, len(s) + 1)
Indices(s) == IF s = << >> THEN << >> ELSE Append(Indices(Tail(s)), Len(s))

RECURSIVE SeqMap(_, _)
\* the list [Op(x) for x in s]
SeqMap(Op(_), s) ==
  IF s = << >> THEN << >>
  ELSE Append(SeqMap(Op, SubSeq(s, 1, Len(s) - 1)), Op(s[Len(s)]))

\* PacejkaParams.sport_tire() / drift_tire(): coefficients in MILLI
sport_tire == [
  b0 |-> 1650, b1 |-> 0, b2 |-> 1688000, b3 |-> 0, b4 |-> 229000, b5 |-> 0,
  b6 |-> 0, b7 |-> 0, b8 |-> -10000, b9 |-> 0, b10 |-> 0, b11 |-> 0, b12 |-> 0,
  a0 |-> 1300, a1 |-> -22100, a2 |-> 1011000, a3 |-> 1078000, a4 |-> 1820,
  a5 |-> 208, a6 |-> 0, a7 |-> -354, a8 |-> 707, a9 |-> 28, a10 |-> 0,
  a11 |-> 14800, a12 |-> 22, a13 |-> 0, a14 |-> 0, a15 |-> 0, a16 |-> 0,
  a17 |-> 0]

drift_tire == [
  b0 |-> 1500, b1 |-> 0, b2 |-> 1400000, b3 |-> 0, b4 |-> 200000, b5 |-> 0,
  b6 |-> 0, b7 |-> 0, b8 |-> -8000, b9 |-> 0, b10 |-> 0, b11 |-> 0, b12 |-> 0,
  a0 |-> 1200, a1 |-> -18000, a2 |-> 850000, a3 |-> 900000, a4 |-> 2000,
  a5 |-> 150, a6 |-> 0, a7 |-> -200, a8 |-> 500, a9 |-> 20, a10 |-> 0,
  a11 |-> 10000, a12 |-> 15, a13 |-> 0, a14 |-> 0, a15 |-> 0, a16 |-> 0,
  a17 |-> 0]

\* TireConfig.sport() / TireConfig.drift()
TireConfig_sport == [
  radius |-> 3200, inertia |-> 1200, pacejka_params |-> sport_tire,
  relaxation_length_x |-> 3000, relaxation_length_y |-> 4000,
  use_relaxation |-> TRUE, friction_mu |-> 1000]

TireConfig_drift == [
  radius |-> 3200, inertia |-> 1000, pacejka_params |-> drift_tire,
  relaxation_length_x |-> 3500, relaxation_length_y |-> 4500,
  use_relaxation |-> TRUE, friction_mu |-> 900]

\* CarConfig.sport(), with the defaults of the sub-system configurations the
\* Car constructor leaves untouched (steering_rate, engagement_rate, ...)
CarConfig_sport == [
  mass |-> 1400, inertia |-> 2500, wheelbase |-> 27000,
  track_front |-> 15000, track_rear |-> 15000, cg_height |-> 4500,
  cg_to_front |-> 14000, tire_config |-> TireConfig_sport,
  max_steer_angle |-> 600, ackermann_factor |-> 800, steering_rate |-> 3000,
  differential |-> "open", max_torque |-> 400, gear_ratio |-> 3500,
  efficiency |-> 900, max_rpm |-> 7000, idle_rpm |-> 800,
  max_brake_torque |-> 3000, brake_bias |-> 650,
  handbrake_torque |-> 2000, engagement_rate |-> 10, release_rate |-> 15,
  can_lock_wheels |-> TRUE, lock_threshold |-> 500,
  lsd_preload |-> 100, lsd_power_ratio |-> 300, lsd_coast_ratio |-> 100,
  gravity |-> 981]

\* CarConfig.drift()
CarConfig_drift == [CarConfig_sport EXCEPT
  !.mass = 1300, !.inertia = 2200, !.track_front = 15500,
  !.track_rear = 15500, !.cg_height = 4000, !.cg_to_front = 15000,
  !.tire_config = TireConfig_drift, !.max_steer_angle = 700,
  !.ackermann_factor = 500, !.differential = "lsd", !.max_torque = 450,
  !.gear_ratio = 3800, !.lsd_preload = 150, !.lsd_power_ratio = 400,
  !.lsd_coast_ratio = 150, !.handbrake_torque = 2500]

\* A configuration that meets every validity condition of the error
\* taxonomy (positive mass, inertia, wheelbase, track, radius; cg inside the
\* wheelbase) and has no steering lock: CarConfig(max_steer_angle=0.0).
CarConfig_no_lock == [CarConfig_sport EXCEPT !.max_steer_angle = 0]

Configs == {CarConfig_sport, CarConfig_no_lock}

\* PacejkaParams.rain_tire()
rain_tire == [sport_tire EXCEPT
  !.b0 = 1400, !.b2 = 1000000, !.b4 = 150000, !.b8 = -5000,
  !.a0 = 1100, !.a1 = -15000, !.a2 = 600000, !.a3 = 700000, !.a4 = 2500,
  !.a5 = 100, !.a7 = -100, !.a8 = 300, !.a9 = 10, !.a11 = 5000, !.a12 = 10]

\* TIRE_PRESETS["street"]["config"](): the coefficients it leaves out keep
\* the defaults of PacejkaParams, which are those of the sport tire
TireConfig_street == [
  radius |-> 3300, inertia |-> 1000,
  pacejka_params |-> [sport_tire EXCEPT
    !.b0 = 1500, !.b2 = 1400000, !.b4 = 200000, !.b8 = -8000,
    !.a0 = 1200, !.a2 = 900000, !.a3 = 950000, !.a4 = 1900, !.a7 = -300],
  relaxation_length_x |-> 4500, relaxation_length_y |-> 5500,
  use_relaxation |-> TRUE, friction_mu |-> 950]

\* TIRE_PRESETS["rain"]["config"]()
TireConfig_rain == [
  radius |-> 3200, inertia |-> 1000, pacejka_params |-> rain_tire,
  relaxation_length_x |-> 5000, relaxation_length_y |-> 6000,
  use_relaxation |-> TRUE, friction_mu |-> 700]

\* TIRE_PRESETS["semi_slick"]["config"]()
TireConfig_semi_slick == [
  radius |-> 3100, inertia |-> 1300,
  pacejka_params |-> [sport_tire EXCEPT
    !.b0 = 1700, !.b2 = 1900000, !.b4 = 260000, !.b8 = -12000,
    !.a0 = 1400, !.a2 = 1200000, !.a3 = 1250000, !.a4 = 1700, !.a7 = -450],
  relaxation_length_x |-> 2500, relaxation_length_y |-> 3500,
  use_relaxation |-> TRUE, friction_mu |-> 1100]

\* the dictionary TIRE_PRESETS, in the order of its keys
TIRE_PRESETS == <<
  [key |-> "sport", config |-> TireConfig_sport],
  [key |-> "drift", config |-> TireConfig_drift],
  [key |-> "street", config |-> TireConfig_street],
  [key |-> "rain", config |-> TireConfig_rain],
  [key |-> "semi_slick", config |-> TireConfig_semi_slick] >>

\* ", ".join(presets.keys()): the keys, in order
preset_keys(presets) == [i \in DOMAIN presets |-> presets[i].key]

\* preset_name in presets
has_preset(presets, preset_name) ==
  \E i \in DOMAIN presets : presets[i].key = preset_name

\* presets[preset_name]["config"]()
preset_config(presets, preset_name) ==
  presets[CHOOSE i \in DOMAIN presets : presets[i].key = preset_name].config

\* a factory that looks no name up and answers the sport tire for any
get_tire_config_default(preset_name) ==
  [raised |-> "none", config |-> TireConfig_sport]

\* get_tire_config: the ValueError carries the name asked for and the
\* available names
get_tire_config(preset_name) ==
  IF ~has_preset(TIRE_PRESETS, preset_name)
    THEN [raised |-> "ValueError", unknown |-> preset_name,
          available |-> preset_keys(TIRE_PRESETS)]
    ELSE [raised |-> "none", config |-> preset_config(TIRE_PRESETS, preset_name)]

\* VEHICLE_PRESETS["muscle"]["config"]()
CarConfig_muscle == [CarConfig_sport EXCEPT
  !.mass = 1600, !.inertia = 3000, !.wheelbase = 28500,
  !.track_front = 15500, !.track_rear = 15500, !.cg_height = 5200,
  !.cg_to_front = 15500, !.tire_config = get_tire_config("sport").config,
  !.max_steer_angle = 550, !.ackermann_factor = 700,
  !.differential = "open", !.max_torque = 550, !.gear_ratio = 3200,
  !.brake_bias = 600, !.handbrake_torque = 2000]

\* VEHICLE_PRESETS["hot_hatch"]["config"]()
CarConfig_hot_hatch == [CarConfig_sport EXCEPT
  !.mass = 1200, !.inertia = 1800, !.wheelbase = 25000,
  !.track_front = 14500, !.track_rear = 14200, !.cg_height = 4500,
  !.cg_to_front = 11500, !.tire_config = get_tire_config("sport").config,
  !.max_steer_angle = 600, !.ackermann_factor = 850,
  !.differential = "open", !.max_torque = 280, !.gear_ratio = 4000,
  !.brake_bias = 700, !.handbrake_torque = 1500]

\* VEHICLE_PRESETS["formula"]["config"]()
CarConfig_formula == [CarConfig_sport EXCEPT
  !.mass = 750, !.inertia = 900, !.wheelbase = 30000,
  !.track_front = 16000, !.track_rear = 15500, !.cg_height = 2500,
  !.cg_to_front = 14000, !.tire_config = get_tire_config("semi_slick").config,
  !.max_steer_angle = 400, !.ackermann_factor = 600,
  !.differential = "lsd", !.max_torque = 600, !.gear_ratio = 3000,
  !.brake_bias = 550, !.handbrake_torque = 1000,
  !.lsd_preload = 200, !.lsd_power_ratio = 500, !.lsd_coast_ratio = 300]

\* VEHICLE_PRESETS["touring"]["config"]()
CarConfig_touring == [CarConfig_sport EXCEPT
  !.mass = 1100, !.inertia = 1600, !.wheelbase = 26500,
  !.track_front = 15000, !.track_rear = 15000, !.cg_height = 4000,
  !.cg_to_front = 13000, !.tire_config = get_tire_config("semi_slick").config,
  !.max_steer_angle = 550, !.ackermann_factor = 750,
  !.differential = "lsd", !.max_torque = 380, !.gear_ratio = 3600,
  !.brake_bias = 580, !.handbrake_torque = 1800,
  !.lsd_preload = 120, !.lsd_power_ratio = 350, !.lsd_coast_ratio = 200]

\* the dictionary VEHICLE_PRESETS, in the order of its keys
VEHICLE_PRESETS == <<
  [key |-> "sport_coupe", config |-> CarConfig_sport],
  [key |-> "drift_car", config |-> CarConfig_drift],
  [key |-> "muscle", config |-> CarConfig_muscle],
  [key |-> "hot_hatch", config |-> CarConfig_hot_hatch],
  [key |-> "formula", config |-> CarConfig_formula],
  [key |-> "touring", config |-> CarConfig_touring] >>

\* get_vehicle_config
get_vehicle_config(preset_name) ==
  IF ~has_preset(VEHICLE_PRESETS, preset_name)
    THEN [raised |-> "ValueError", unknown |-> preset_name,
          available |-> preset_keys(VEHICLE_PRESETS)]
    ELSE [raised |-> "none", config |-> preset_config(VEHICLE_PRESETS, preset_name)]

(***************************************************************************)
(* Car: construction, inputs, steering, handbrake                          *)
(***************************************************************************)
Vec(x, y) == [x |-> x, y |-> y]
Zero2 == Vec(0, 0)

\* Tire.__init__
FreshTire == [
  angular_velocity |-> 0, rotation_angle |-> 0, normal_load |-> 4000,
  Fx |-> 0, Fy |-> 0, relax_Fx |-> 0, relax_Fy |-> 0,
  slip_ratio |-> 0, slip_angle |-> 0, slip_angle_deg |-> 0]

\* RigidBody as constructed by Car.__init__
FreshBody == [
  position |-> Zero2, orientation |-> 0, velocity |-> Zero2,
  angular_velocity |-> 0, force |-> Zero2, torque |-> 0]

\* Car.__init__
FreshCar(cfg) == [
  config |-> cfg,
  body |-> FreshBody,
  steering |-> [current_input |-> 0, target_input |-> 0],
  handbrake |-> [engagement |-> 0, target |-> 0,
                 left_locked |-> FALSE, right_locked |-> FALSE],
  engine_rpm |-> cfg.idle_rpm,
  tires |-> PerWheel(LAMBDA w : FreshTire),
  throttle |-> 0, brake |-> 0, steer |-> 0, hbrake |-> 0,
  wheel_loads |-> PerWheel(LAMBDA w : 0),
  prev_velocity |-> Zero2,
  longitudinal_accel |-> 0, lateral_accel |-> 0]

\* Car(cfg): the constructor checks no field of the configuration; the one
\* thing that stops it is Suspension._calculate_static_loads dividing by a
\* zero wheelbase
Car_init(cfg) ==
  IF cfg.wheelbase = 0
    THEN [raised |-> "ZeroDivisionError", car |-> "none"]
    ELSE [raised |-> "none", car |-> FreshCar(cfg)]

\* Car.set_inputs storing its arguments as given
set_inputs_unclamped(car, throttle, brake, steer, handbrake) ==
  [car EXCEPT !.throttle = throttle, !.brake = brake,
              !.steer = steer, !.hbrake = handbrake]

\* Car.set_inputs
set_inputs(car, throttle, brake, steer, handbrake) ==
  [car EXCEPT !.throttle = Max(0, Min(MILLI, throttle)),
              !.brake = Max(0, Min(MILLI, brake)),
              !.steer = Max(-MILLI, Min(MILLI, steer)),
              !.hbrake = Max(0, Min(MILLI, handbrake))]

\* Steering.set_input
Steering_set_input(st, steer_input) ==
  [st EXCEPT !.target_input = Max(-MILLI, Min(MILLI, steer_input))]

\* Steering.update: the division by max_steer_angle raises ZeroDivisionError
\* when the configured lock is 0
Steering_update_raises(cfg) == cfg.max_steer_angle = 0

\* Steering.update: the step toward the target, limited to max_delta
Steering_limit(diff, max_delta) ==
  IF Abs(diff) > max_delta THEN copysign(max_delta, diff) ELSE diff

Steering_update(st, cfg, dt) ==
  [st EXCEPT !.current_input =
     st.current_input
     + Steering_limit(st.target_input - st.current_input,
                      Div(cfg.steering_rate * dt, cfg.max_steer_angle * 10))]

\* Handbrake.set_input
Handbrake_set_input(hb, input_value) ==
  [hb EXCEPT !.target = Max(0, Min(MILLI, input_value))]

\* Handbrake.update without the min and max against the target
Handbrake_update_unlimited(hb, cfg, dt) ==
  IF hb.target > hb.engagement
  THEN [hb EXCEPT !.engagement = hb.engagement + Div(cfg.engagement_rate * dt, 10)]
  ELSE [hb EXCEPT !.engagement = hb.engagement - Div(cfg.release_rate * dt, 10)]

\* Handbrake.update
Handbrake_update(hb, cfg, dt) ==
  IF hb.target > hb.engagement
  THEN [hb EXCEPT !.engagement =
          Min(hb.target, hb.engagement + Div(cfg.engagement_rate * dt, 10))]
  ELSE [hb EXCEPT !.engagement =
          Max(hb.target, hb.engagement - Div(cfg.release_rate * dt, 10))]

\* Handbrake.get_brake_torques: the torque on each rear wheel
Handbrake_base_torque(hb, cfg) == Div(hb.engagement * cfg.handbrake_torque, MILLI)

\* Handbrake.get_brake_torques: the lock flags it refreshes as a side effect
Handbrake_lock_flags(hb, cfg, omega_L, omega_R) ==
  IF ~cfg.can_lock_wheels THEN hb
  ELSE IF hb.engagement > 800
  THEN [hb EXCEPT !.left_locked = Abs(omega_L) < cfg.lock_threshold,
                  !.right_locked = Abs(omega_R) < cfg.lock_threshold]
  ELSE [hb EXCEPT !.left_locked = FALSE, !.right_locked = FALSE]


(***************************************************************************)
(* Suspension, steering geometry, drivetrain                               *)
(***************************************************************************)
\* SuspensionConfig.cg_to_rear
cg_to_rear(cfg) == cfg.wheelbase - cfg.cg_to_front

\* total_mass * gravity
total_weight(cfg) == Div(cfg.mass * cfg.gravity, 100)

\* Suspension._calculate_static_loads: the weight on the front and rear axle
front_weight(cfg) == MulDiv(total_weight(cfg), cg_to_rear(cfg), cfg.wheelbase)
rear_weight(cfg) == MulDiv(total_weight(cfg), cfg.cg_to_front, cfg.wheelbase)

\* Suspension.get_static_loads
get_static_loads(cfg) ==
  [FL |-> Div(front_weight(cfg), 2), FR |-> Div(front_weight(cfg), 2),
   RL |-> Div(rear_weight(cfg), 2), RR |-> Div(rear_weight(cfg), 2)]

\* Suspension.calculate_loads_simple: longitudinal transfer, front to rear
long_transfer(cfg, longitudinal_accel) ==
  MulDiv(MulDiv(longitudinal_accel, cfg.mass, MILLI), cfg.cg_height, cfg.wheelbase)

\* Suspension.calculate_loads_simple: lateral transfer on an axle of the
\* given track that carries the share lever / wheelbase of the weight
lat_transfer(cfg, lateral_accel, track, lever) ==
  MulDiv(MulDiv(MulDiv(lateral_accel, cfg.mass, MILLI), cfg.cg_height, track),
         lever, cfg.wheelbase)

\* Suspension.calculate_loads_simple: the loads from the static halves and
\* the transfers, none below zero
loads_from_transfer(front_half, rear_half, half_long, lat_front, lat_rear) ==
  [FL |-> Max(0, front_half - half_long + lat_front),
   FR |-> Max(0, front_half - half_long - lat_front),
   RL |-> Max(0, rear_half + half_long + lat_rear),
   RR |-> Max(0, rear_half + half_long - lat_rear)]

\* Suspension.calculate_loads_simple
calculate_loads_simple(cfg, longitudinal_accel, lateral_accel) ==
  loads_from_transfer(
    Div(front_weight(cfg), 2), Div(rear_weight(cfg), 2),
    Div(long_transfer(cfg, longitudinal_accel), 2),
    lat_transfer(cfg, lateral_accel, cfg.track_front, cg_to_rear(cfg)),
    lat_transfer(cfg, lateral_accel, cfg.track_rear, cfg.cg_to_front))

\* Steering.get_wheel_angles: the Ackermann angle of the wheel whose turn
\* radius is R, blended with the plain angle mag by the Ackermann factor
ackermann_blend(cfg, mag, R) ==
  Div(mag * (MILLI - cfg.ackermann_factor), MILLI)
  + Div(Atan(Div(cfg.wheelbase * MILLI, R)) * cfg.ackermann_factor, MILLI)

\* Steering.get_wheel_angles, large angles: R is the turn radius of the
\* centre line, tanv the tangent of the steer angle
ackermann_angles(cfg, base_angle, tanv, R) ==
  IF tanv = 0 \/ R - Div(cfg.track_front, 2) = 0 \/ R + Div(cfg.track_front, 2) = 0
  THEN <<base_angle, base_angle>>
  ELSE IF base_angle > 0
  THEN <<copysign(ackermann_blend(cfg, Abs(base_angle), R + Div(cfg.track_front, 2)),
                  base_angle),
         copysign(ackermann_blend(cfg, Abs(base_angle), R - Div(cfg.track_front, 2)),
                  base_angle)>>
  ELSE <<copysign(ackermann_blend(cfg, Abs(base_angle), R - Div(cfg.track_front, 2)),
                  base_angle),
         copysign(ackermann_blend(cfg, Abs(base_angle), R + Div(cfg.track_front, 2)),
                  base_angle)>>

\* Steering.get_wheel_angles: the small-angle correction
ackermann_correction(cfg, base_angle) ==
  Div(Div(cfg.wheelbase * base_angle, 2 * cfg.track_front) * cfg.ackermann_factor,
      MILLI)

\* Steering.get_wheel_angles for the steer angle base_angle (mrad)
wheel_angles_of(cfg, base_angle) ==
  IF Abs(base_angle) < 1 THEN <<0, 0>>
  ELSE IF cfg.ackermann_factor < 1 THEN <<base_angle, base_angle>>
  ELSE IF Abs(base_angle) < 100
  THEN <<base_angle + ackermann_correction(cfg, base_angle),
         base_angle - ackermann_correction(cfg, base_angle)>>
  ELSE ackermann_angles(cfg, base_angle, Tan(Abs(base_angle)),
                        IF Tan(Abs(base_angle)) = 0 THEN 0
                        ELSE Div(cfg.wheelbase * MILLI, Tan(Abs(base_angle))))

\* Steering.get_wheel_angles: <<left_angle, right_angle>> in mrad
get_wheel_angles(cfg, steer_input) ==
  wheel_angles_of(cfg, Div(steer_input * cfg.max_steer_angle, MILLI))

\* Drivetrain.get_engine_torque: the torque curve over rpm / max_rpm
torque_mult(rpm_fraction) ==
  IF rpm_fraction < 300 THEN 600 + Div(rpm_fraction * 400, 300)
  ELSE IF rpm_fraction < 800 THEN MILLI
  ELSE MILLI - Div((rpm_fraction - 800) * 300, 200)

\* Drivetrain.get_engine_torque
get_engine_torque(cfg, engine_rpm, throttle) ==
  Div(Div(throttle * cfg.max_torque, MILLI)
      * torque_mult(Max(100, Min(MILLI, Div(engine_rpm * MILLI, cfg.max_rpm)))),
      MILLI)

\* Drivetrain._calculate_lsd_torques: the split of T_base by transfer toward
\* the slower wheel
lsd_split(T_base, transfer, delta_omega) ==
  IF Abs(delta_omega) > 100
  THEN IF delta_omega > 0 THEN <<T_base + transfer, T_base - transfer>>
       ELSE <<T_base - transfer, T_base + transfer>>
  ELSE <<T_base, T_base>>

\* Drivetrain._calculate_lsd_torques: the torque moved across the axle
lsd_transfer(cfg, axle_torque, lock_ratio) ==
  Div(Min(cfg.lsd_preload + Div(Abs(axle_torque) * lock_ratio, MILLI),
          Abs(Div(axle_torque, 2))) * lock_ratio, MILLI)

\* Drivetrain._calculate_lsd_torques
calculate_lsd_torques(cfg, axle_torque, omega_L, omega_R) ==
  lsd_split(Div(axle_torque, 2),
            lsd_transfer(cfg, axle_torque,
                         IF axle_torque > 0 THEN cfg.lsd_power_ratio
                         ELSE cfg.lsd_coast_ratio),
            omega_R - omega_L)

\* Drivetrain.get_drive_torques: the split of the axle torque
split_axle_torque(cfg, axle_torque, omega_L, omega_R) ==
  IF cfg.differential = "lsd"
  THEN calculate_lsd_torques(cfg, axle_torque, omega_L, omega_R)
  ELSE <<Div(axle_torque, 2), Div(axle_torque, 2)>>

\* Drivetrain.get_drive_torques: <<left, right>>
get_drive_torques(cfg, engine_rpm, throttle, omega_L, omega_R) ==
  split_axle_torque(
    cfg,
    Div(Div(get_engine_torque(cfg, engine_rpm, throttle) * cfg.gear_ratio, MILLI)
        * cfg.efficiency, MILLI),
    omega_L, omega_R)

\* Drivetrain.get_brake_torques: the axle shares of the total brake torque
brake_split(cfg, total_brake) ==
  [FL |-> Div(Div(total_brake * cfg.brake_bias, MILLI), 2),
   FR |-> Div(Div(total_brake * cfg.brake_bias, MILLI), 2),
   RL |-> Div(Div(total_brake * (MILLI - cfg.brake_bias), MILLI), 2),
   RR |-> Div(Div(total_brake * (MILLI - cfg.brake_bias), MILLI), 2)]

\* Drivetrain.get_brake_torques: per wheel
get_brake_torques(cfg, brake) ==
  brake_split(cfg, Div(brake * cfg.max_brake_torque, MILLI))

\* Drivetrain.update_engine_rpm: the smoothing toward target_rpm
rpm_toward(engine_rpm, target_rpm, alpha) ==
  engine_rpm + Div((target_rpm - engine_rpm) * alpha, MILLI)

\* Drivetrain.update_engine_rpm
update_engine_rpm(cfg, engine_rpm, wheel_speed, dt) ==
  rpm_toward(engine_rpm,
             Max(cfg.idle_rpm,
                 Min(cfg.max_rpm,
                     Div(MulDiv(MulDiv(Abs(wheel_speed), cfg.gear_ratio, MILLI),
                                9549, MILLI), MILLI))),
             Min(MILLI, Div(dt * 5 * MILLI, TU_PER_SEC)))


(***************************************************************************)
(* Tire: Pacejka, slip, combined slip, relaxation, wheel spin              *)
(***************************************************************************)
\* Number of samples of the peak searches (np.linspace(.., .., 200) in the
\* program; the model searches the same interval on a coarser grid)
PeakSamples == 3

SLIP_EPSILON == 5000
MIN_VELOCITY == 5000
MAX_TAU == 5000

\* PacejkaFormula.magic_formula: x1 = x + Sh is folded into Bx1 = B * x1
magic_formula(Bx1, C, D, E, Sv) ==
  Div(D * Sin(Div(C * Atan(Bx1 - Div(E * (Bx1 - Atan(Bx1)), MILLI)), MILLI)), MILLI)
  + Sv

\* coef * Fz_kN, coef in MILLI and Fz in N: result in MILLI
PerKN(coef, Fz) == MulDiv(Fz, coef, MILLI)

\* B * x1 = BCD * (x + Sh) / (C * D), 0 when C * D is 0
stiffness_arg(BCD, CD, x1) == IF CD = 0 THEN 0 ELSE Div(BCD * x1, CD)

\* PacejkaFormula.longitudinal_force: the peak factor D and the stiffness BCD
longitudinal_D(p, Fz) == MulDiv(Fz, Div(PerKN(p.b1, Fz) + p.b2, MILLI), MILLI)
longitudinal_BCD(p, Fz) ==
  Div(Div(PerKN(PerKN(p.b3, Fz), Fz) + PerKN(p.b4, Fz), MILLI)
      * ExpNeg(PerKN(p.b5, Fz)), MILLI)

\* PacejkaFormula.longitudinal_force: slip_ratio in MILLI, Fz in N
longitudinal_force(p, slip_ratio, Fz) ==
  IF Fz <= 0 THEN 0
  ELSE magic_formula(
         stiffness_arg(longitudinal_BCD(p, Fz), Div(p.b0 * longitudinal_D(p, Fz), MILLI),
                       slip_ratio + PerKN(p.b9, Fz) + p.b10),
         p.b0,
         longitudinal_D(p, Fz),
         PerKN(PerKN(p.b6, Fz), Fz) + PerKN(p.b7, Fz) + p.b8,
         Div(PerKN(p.b11, Fz) + p.b12, MILLI))

\* PacejkaFormula.lateral_force: the peak factor D and the stiffness BCD
lateral_D(p, Fz) == MulDiv(Fz, Div(PerKN(p.a1, Fz) + p.a2, MILLI), MILLI)
lateral_BCD(p, Fz) ==
  Div(Div(p.a3, MILLI) * Sin(2 * Atan(Div(Fz * MILLI, p.a4))), MILLI)

\* PacejkaFormula.lateral_force: slip_angle in 1e-3 deg, Fz in N, camber 0
\* (Tire.camber is never changed from 0, so the camber terms drop out)
lateral_force(p, slip_angle, Fz) ==
  IF Fz <= 0 THEN 0
  ELSE magic_formula(
         stiffness_arg(lateral_BCD(p, Fz), Div(p.a0 * lateral_D(p, Fz), MILLI),
                       slip_angle + PerKN(p.a8, Fz) + p.a9),
         p.a0,
         lateral_D(p, Fz),
         Div((PerKN(p.a6, Fz) + p.a7)
             * (IF slip_angle < 0 THEN MILLI + p.a17 ELSE MILLI - p.a17), MILLI),
         Div(PerKN(p.a11, Fz) + p.a12, MILLI))

\* the force magnitude at sample n of the grid n * top / (PeakSamples - 1)
PeakSample(p, Fz, lateral, top, n) ==
  IF lateral THEN Abs(lateral_force(p, Div(n * top, PeakSamples - 1), Fz))
  ELSE Abs(longitudinal_force(p, Div(n * top, PeakSamples - 1), Fz))

RECURSIVE PeakOver(_, _, _, _, _)
\* max over the samples n .. PeakSamples - 1
PeakOver(p, Fz, lateral, top, n) ==
  IF n >= PeakSamples THEN 0
  ELSE Max(PeakSample(p, Fz, lateral, top, n), PeakOver(p, Fz, lateral, top, n + 1))

\* PacejkaFormula.get_peak_longitudinal_force: slip ratios 0 .. 0.5
get_peak_longitudinal_force(p, Fz) == PeakOver(p, Fz, FALSE, 500, 0)

\* PacejkaFormula.get_peak_lateral_force: slip angles 0 .. 20 deg
get_peak_lateral_force(p, Fz) == PeakOver(p, Fz, TRUE, 20000, 0)

\* CombinedSlip.combined_forces_empirical: the forces scaled back onto the
\* friction ellipse when saturation exceeds 1
limit_saturation(Fx, Fy, saturation) ==
  IF saturation > MILLI
  THEN <<Div(Fx * MILLI, saturation), Div(Fy * MILLI, saturation)>>
  ELSE <<Fx, Fy>>

\* CombinedSlip.combined_forces_empirical: the friction-ellipse check on the
\* reduced forces
limit_to_ellipse(Fx, Fy, Fx_peak, Fy_peak) ==
  limit_saturation(Fx, Fy, Hypot(Div(Fx * MILLI, Fx_peak), Div(Fy * MILLI, Fy_peak)))

\* CombinedSlip.combined_forces_empirical: the reduction factors
\* Gx = cos(force_angle / 2), Gy = cos((pi/2 - force_angle) / 2)
reduce_forces(Fx_pure, Fy_pure, Fx_peak, Fy_peak, force_angle) ==
  limit_to_ellipse(Div(Fx_pure * Cos(Div(force_angle, 2)), MILLI),
                   Div(Fy_pure * Cos(Div(PI \div 2 - force_angle, 2)), MILLI),
                   Fx_peak, Fy_peak)

\* CombinedSlip.combined_forces_empirical on the normalised pure forces
combine_normalised(Fx_pure, Fy_pure, Fx_peak, Fy_peak, fx_norm, fy_norm) ==
  IF fx_norm + fy_norm < 1 THEN <<0, 0>>
  ELSE reduce_forces(Fx_pure, Fy_pure, Fx_peak, Fy_peak, Atan2(fy_norm, fx_norm))

\* CombinedSlip.combined_forces_empirical on the pure and the peak forces
combine_pure(Fx_pure, Fy_pure, Fx_peak, Fy_peak) ==
  IF Fx_peak < 1 \/ Fy_peak < 1 THEN <<0, 0>>
  ELSE combine_normalised(Fx_pure, Fy_pure, Fx_peak, Fy_peak,
                          Div(Abs(Fx_pure) * MILLI, Fx_peak),
                          Div(Abs(Fy_pure) * MILLI, Fy_peak))

\* CombinedSlip.combined_forces_empirical (the method Tire.update selects):
\* <<Fx, Fy>>
combined_forces_empirical(tc, slip_ratio, slip_angle_deg, Fz) ==
  combine_pure(
    Div(longitudinal_force(tc.pacejka_params, slip_ratio, Fz) * tc.friction_mu, MILLI),
    Div(lateral_force(tc.pacejka_params, slip_angle_deg, Fz) * tc.friction_mu, MILLI),
    Div(get_peak_longitudinal_force(tc.pacejka_params, Fz) * tc.friction_mu, MILLI),
    Div(get_peak_lateral_force(tc.pacejka_params, Fz) * tc.friction_mu, MILLI))

\* CombinedSlip.combined_forces_simple on the pure and the peak forces: the
\* pure forces, scaled back onto the friction ellipse (ellipse_ratio 1)
simple_pure(Fx_pure, Fy_pure, Fx_peak, Fy_peak) ==
  IF Fx_peak < 1 \/ Fy_peak < 1 THEN <<0, 0>>
  ELSE limit_to_ellipse(Fx_pure, Fy_pure, Fx_peak, Fy_peak)

\* CombinedSlip.combined_forces_simple: <<Fx, Fy>>
combined_forces_simple(tc, slip_ratio, slip_angle_deg, Fz) ==
  simple_pure(
    Div(longitudinal_force(tc.pacejka_params, slip_ratio, Fz) * tc.friction_mu, MILLI),
    Div(lateral_force(tc.pacejka_params, slip_angle_deg, Fz) * tc.friction_mu, MILLI),
    Div(get_peak_longitudinal_force(tc.pacejka_params, Fz) * tc.friction_mu, MILLI),
    Div(get_peak_lateral_force(tc.pacejka_params, Fz) * tc.friction_mu, MILLI))

\* CombinedSlip.combined_forces_vector: the force F_combined split along the
\* slip components, with the signs of the slips
vector_split(F_combined, slip_ratio, slip_angle_rad, tan_alpha, sigma) ==
  <<copysign(MulDiv(F_combined, slip_ratio, sigma), slip_ratio),
    copysign(MulDiv(F_combined, tan_alpha, sigma), slip_angle_rad)>>

\* CombinedSlip.combined_forces_vector on the combined slip sigma: the
\* lateral curve is read at the angle atan(sigma)
vector_sigma(tc, slip_ratio, slip_angle_rad, Fz, tan_alpha, sigma) ==
  IF sigma < 1 THEN <<0, 0>>
  ELSE vector_split(
         Div(Abs(lateral_force(tc.pacejka_params, degrees(Atan(sigma)), Fz))
             * tc.friction_mu, MILLI),
         slip_ratio, slip_angle_rad, tan_alpha, sigma)

\* CombinedSlip.combined_forces_vector, the slip angle tangent
vector_tan(tc, slip_ratio, slip_angle_rad, Fz, tan_alpha) ==
  vector_sigma(tc, slip_ratio, slip_angle_rad, Fz, tan_alpha,
               Hypot(slip_ratio, tan_alpha))

\* CombinedSlip.combined_forces_vector: <<Fx, Fy>>, slip_angle_rad in mrad
combined_forces_vector(tc, slip_ratio, slip_angle_rad, Fz) ==
  vector_tan(tc, slip_ratio, slip_angle_rad, Fz,
             IF Abs(slip_angle_rad) < 1500 THEN Tan(slip_angle_rad) ELSE 10 * MILLI)

\* CombinedSlip.calculate(slip_ratio, slip_angle_deg, Fz, method=method)
CombinedSlip_calculate(tc, slip_ratio, slip_angle_deg, Fz, method) ==
  IF method = "simple"
    THEN combined_forces_simple(tc, slip_ratio, slip_angle_deg, Fz)
  ELSE IF method = "vector"
    THEN combined_forces_vector(tc, slip_ratio, radians(slip_angle_deg), Fz)
  ELSE combined_forces_empirical(tc, slip_ratio, slip_angle_deg, Fz)

\* SlipCalculator.slip_ratio from the wheel's rim speed
slip_ratio_of(ground_velocity, wheel_velocity) ==
  Max(-MILLI,
      Min(MILLI,
          MulDiv(wheel_velocity - ground_velocity, MILLI,
                 Max3(Abs(ground_velocity), Abs(wheel_velocity), SLIP_EPSILON))))

\* SlipCalculator.slip_ratio
slip_ratio(ground_velocity, wheel_angular_velocity, wheel_radius) ==
  slip_ratio_of(ground_velocity, Div(wheel_angular_velocity * wheel_radius, MILLI))

RECURSIVE normalize_slip(_)
\* the normalisation loops of SlipCalculator.slip_angle (mrad)
normalize_slip(slip) ==
  IF slip > PI THEN normalize_slip(slip - 2 * PI)
  ELSE IF slip < -PI THEN normalize_slip(slip + 2 * PI)
  ELSE slip

\* SlipCalculator.slip_angle
slip_angle(velocity, wheel_heading) ==
  IF Hypot(velocity.x, velocity.y) < SLIP_EPSILON THEN 0
  ELSE normalize_slip(Atan2(velocity.y, velocity.x) - wheel_heading)

\* the first-order step with the uncapped gain dt / tau
relaxation_step_uncapped(F, target, tau, dt) ==
  IF tau > 0
  THEN F + MulDiv(target * MILLI - F, Div(dt * MILLI, tau), MILLI)
  ELSE target * MILLI

\* TireRelaxation.update: the first-order step with time constant tau; the
\* filtered force F is kept in 1e-3 N, the target is in N
relaxation_step(F, target, tau, dt) ==
  IF tau > 0
  THEN F + MulDiv(target * MILLI - F, MILLI - ExpNeg(Div(dt * MILLI, tau)), MILLI)
  ELSE target * MILLI

\* TireRelaxation.update on one axis: sigma in 1e-4 m
relaxation_update(F, target, sigma, velocity, dt) ==
  relaxation_step(F, target,
                  Min(Div(sigma * TU_PER_SEC, Max(Abs(velocity), MIN_VELOCITY)), MAX_TAU),
                  dt)

\* TireRelaxation.update_simple: the linear step with gain min(dt / tau, 1)
relaxation_step_simple(F, target, tau, dt) ==
  F + MulDiv(target * MILLI - F,
             IF tau > 0 THEN Min(Div(dt * MILLI, tau), MILLI) ELSE MILLI, MILLI)

\* TireRelaxation.update_simple on one axis
relaxation_update_simple(F, target, sigma, velocity, dt) ==
  relaxation_step_simple(F, target,
                  Min(Div(sigma * TU_PER_SEC, Max(Abs(velocity), MIN_VELOCITY)), MAX_TAU),
                  dt)

\* TireRelaxation.update(target_Fx, target_Fy, velocity, dt) on the filter r
TireRelaxation_update(r, target_Fx, target_Fy, velocity, dt) ==
  [r EXCEPT !.Fx = relaxation_update(r.Fx, target_Fx, r.sigma_x, velocity, dt),
            !.Fy = relaxation_update(r.Fy, target_Fy, r.sigma_y, velocity, dt)]

\* TireRelaxation.update_simple(target_Fx, target_Fy, velocity, dt)
TireRelaxation_update_simple(r, target_Fx, target_Fy, velocity, dt) ==
  [r EXCEPT !.Fx = relaxation_update_simple(r.Fx, target_Fx, r.sigma_x, velocity, dt),
            !.Fy = relaxation_update_simple(r.Fy, target_Fy, r.sigma_y, velocity, dt)]

\* Tire._update_wheel_rotation: a wheel slowed below 0.1 rad/s under brake
\* does not reverse
stop_under_brake(omega, brake_torque) ==
  IF brake_torque > 0 /\ Abs(omega) < 100 THEN Max(0, omega) ELSE omega

\* Tire._update_wheel_rotation: the brake opposes a spinning wheel, and holds
\* a stopped one against a smaller net torque
brake_and_spin(tc, omega, net0, brake_torque, dt) ==
  IF Abs(omega) > 100
  THEN stop_under_brake(
         omega + Div((net0 - brake_torque * copysign(1, omega)) * dt * 100, tc.inertia),
         brake_torque)
  ELSE IF Abs(net0) < brake_torque THEN stop_under_brake(0, brake_torque)
  ELSE stop_under_brake(omega + Div(net0 * dt * 100, tc.inertia), brake_torque)

\* Tire._update_wheel_rotation: the new angular velocity
update_wheel_rotation(tc, omega, Fx, drive_torque, brake_torque, dt) ==
  brake_and_spin(tc, omega, drive_torque - Div(Fx * tc.radius, TU_PER_SEC),
                 brake_torque, dt)

\* Tire.update, lines 183-196: the wheel spun by the torques, the state stored
Tire_spin(tire, tc, load, sr, sa, rFx, rFy, Fx, Fy, omega, dt) ==
  [tire EXCEPT !.normal_load = load,
               !.slip_ratio = sr, !.slip_angle = sa,
               !.slip_angle_deg = degrees(sa),
               !.relax_Fx = rFx, !.relax_Fy = rFy,
               !.Fx = Fx, !.Fy = Fy,
               !.angular_velocity = omega,
               !.rotation_angle = tire.rotation_angle + Div(omega * dt, TU_PER_SEC)]

\* Tire.update, lines 172-181: the relaxed forces are the tire's forces
Tire_relaxed(tire, tc, load, sr, sa, rFx, rFy, drive_torque, brake_torque, dt) ==
  Tire_spin(tire, tc, load, sr, sa, rFx, rFy, Div(rFx, MILLI), Div(rFy, MILLI),
            update_wheel_rotation(tc, tire.angular_velocity, Div(rFx, MILLI),
                                  drive_torque, brake_torque, dt), dt)

\* Tire.update, lines 165-181: the steady-state forces, filtered when the
\* tire uses relaxation
Tire_forces(tire, tc, load, sr, sa, forces, velocity_mag, drive_torque, brake_torque, dt) ==
  IF tc.use_relaxation
  THEN Tire_relaxed(tire, tc, load, sr, sa,
                    relaxation_update(tire.relax_Fx, forces[1],
                                      tc.relaxation_length_x, velocity_mag, dt),
                    relaxation_update(tire.relax_Fy, forces[2],
                                      tc.relaxation_length_y, velocity_mag, dt),
                    drive_torque, brake_torque, dt)
  ELSE Tire_spin(tire, tc, load, sr, sa, tire.relax_Fx, tire.relax_Fy,
                 forces[1], forces[2],
                 update_wheel_rotation(tc, tire.angular_velocity, forces[1],
                                       drive_torque, brake_torque, dt), dt)

\* Tire.update, lines 152-170: the slips of a loaded tire
Tire_slips(tire, tc, load, contact_velocity, sr, sa, drive_torque, brake_torque, dt) ==
  Tire_forces(tire, tc, load, sr, sa,
              combined_forces_empirical(tc, sr, degrees(sa), load),
              Hypot(contact_velocity.x, contact_velocity.y),
              drive_torque, brake_torque, dt)

\* Tire.update without the return of an unloaded tire
Tire_update_loaded(tire, tc, contact_velocity, wheel_heading, normal_load, drive_torque, brake_torque, dt) ==
  Tire_slips(tire, tc, Max(0, normal_load), contact_velocity,
             slip_ratio(MulDiv(contact_velocity.x, Cos(wheel_heading), MILLI)
                        + MulDiv(contact_velocity.y, Sin(wheel_heading), MILLI),
                        tire.angular_velocity, tc.radius),
             slip_angle(contact_velocity, wheel_heading),
             drive_torque, brake_torque, dt)

\* Tire.update
Tire_update(tire, tc, contact_velocity, wheel_heading, normal_load, drive_torque, brake_torque, dt) ==
  IF Max(0, normal_load) < 10
  THEN [tire EXCEPT !.normal_load = Max(0, normal_load), !.Fx = 0, !.Fy = 0]
  ELSE Tire_slips(tire, tc, Max(0, normal_load), contact_velocity,
                  slip_ratio(MulDiv(contact_velocity.x, Cos(wheel_heading), MILLI)
                             + MulDiv(contact_velocity.y, Sin(wheel_heading), MILLI),
                             tire.angular_velocity, tc.radius),
                  slip_angle(contact_velocity, wheel_heading),
                  drive_torque, brake_torque, dt)

\* Tire._get_state: the TireState returned by update
Tire_get_state(tire, contact_velocity) ==
  [slip_ratio |-> tire.slip_ratio, slip_angle |-> tire.slip_angle,
   slip_angle_deg |-> tire.slip_angle_deg,
   Fx |-> tire.Fx, Fy |-> tire.Fy, Fz |-> tire.normal_load,
   angular_velocity |-> tire.angular_velocity,
   rotation_angle |-> tire.rotation_angle,
   contact_velocity |-> Hypot(contact_velocity.x, contact_velocity.y),
   is_grounded |-> tire.normal_load > 10]

\* Tire.get_forces_world
get_forces_world(tire, wheel_heading) ==
  Vec(RotX(tire.Fx, tire.Fy, Cos(wheel_heading), Sin(wheel_heading)),
      RotY(tire.Fx, tire.Fy, Cos(wheel_heading), Sin(wheel_heading)))

\* Tire.reset without the reset of the relaxation filter
Tire_reset_keeps_filter(tire) ==
  [tire EXCEPT !.angular_velocity = 0, !.rotation_angle = 0,
               !.normal_load = 4000, !.Fx = 0, !.Fy = 0,
               !.slip_ratio = 0, !.slip_angle = 0, !.slip_angle_deg = 0]

\* Tire.reset
Tire_reset(tire) ==
  [tire EXCEPT !.angular_velocity = 0, !.rotation_angle = 0,
               !.normal_load = 4000, !.Fx = 0, !.Fy = 0,
               !.slip_ratio = 0, !.slip_angle = 0, !.slip_angle_deg = 0,
               !.relax_Fx = 0, !.relax_Fy = 0]

\* Tire.set_angular_velocity_from_speed
set_angular_velocity_from_speed(tire, tc, speed) ==
  [tire EXCEPT !.angular_velocity = MulDiv(speed, MILLI, tc.radius)]


(***************************************************************************)
(* Rigid body                                                              *)
(***************************************************************************)
\* RigidBody.integrate with the new velocities: the position and the yaw
\* follow from them, the yaw is re-normalised, the accumulators are cleared
integrate_with(body, vx, vy, w, dt) ==
  [body EXCEPT
     !.velocity = Vec(vx, vy),
     !.position = Vec(body.position.x + Div(vx * dt, TU_PER_SEC),
                      body.position.y + Div(vy * dt, TU_PER_SEC)),
     !.angular_velocity = w,
     !.orientation = normalize_angle(body.orientation + Div(w * dt, TU_PER_SEC)),
     !.force = Zero2,
     !.torque = 0]

\* RigidBody.integrate: semi-implicit Euler
integrate(body, mass, inertia, dt) ==
  integrate_with(body,
                 body.velocity.x + Div(body.force.x * dt, mass),
                 body.velocity.y + Div(body.force.y * dt, mass),
                 body.angular_velocity + Div(body.torque * dt * 10, inertia),
                 dt)

\* RigidBody.reset
RigidBody_reset(body) ==
  [body EXCEPT !.position = Zero2, !.orientation = 0, !.velocity = Zero2,
               !.angular_velocity = 0, !.force = Zero2, !.torque = 0]

(***************************************************************************)
(* Car.physics_step                                                        *)
(***************************************************************************)
\* Car.get_wheel_position_local
get_wheel_position_local(cfg, w) ==
  CASE w = "FL" -> Vec(cfg.cg_to_front, Div(cfg.track_front, 2))
    [] w = "FR" -> Vec(cfg.cg_to_front, -Div(cfg.track_front, 2))
    [] w = "RL" -> Vec(-(cfg.wheelbase - cfg.cg_to_front), Div(cfg.track_rear, 2))
    [] OTHER    -> Vec(-(cfg.wheelbase - cfg.cg_to_front), -Div(cfg.track_rear, 2))

\* body yaw (1e-5 rad) as the mrad argument of the math library
YawMrad(orientation) == Div(orientation, 100)

\* Car._update_accelerations: the low-pass filter on the body-frame
\* acceleration (ax, ay)
filter_accelerations(car, ax, ay, alpha) ==
  [car EXCEPT
     !.longitudinal_accel =
        car.longitudinal_accel + MulDiv(ax - car.longitudinal_accel, alpha, MILLI),
     !.lateral_accel =
        car.lateral_accel + MulDiv(ay - car.lateral_accel, alpha, MILLI),
     !.prev_velocity = car.body.velocity]

\* Car._update_accelerations: the world-frame acceleration (wx, wy) turned
\* into the body frame
local_accelerations(car, wx, wy, c, s, dt) ==
  filter_accelerations(car, RotX(wx, wy, c, s), RotY(wx, wy, c, s),
                       Min(MILLI, Div(dt * 10 * MILLI, TU_PER_SEC)))

\* Car._update_accelerations
update_accelerations(car, dt) ==
  IF dt <= 0 THEN car
  ELSE local_accelerations(car,
         Div((car.body.velocity.x - car.prev_velocity.x) * MILLI, dt),
         Div((car.body.velocity.y - car.prev_velocity.y) * MILLI, dt),
         Cos(-YawMrad(car.body.orientation)),
         Sin(-YawMrad(car.body.orientation)),
         dt)

\* Car.physics_step, lines 291-294: push the driver inputs to steering and
\* handbrake.  Steering.update raises before it changes anything.
step_subsystems(car, dt) ==
  IF Steering_update_raises(car.config)
  THEN [car EXCEPT !.steering = Steering_set_input(car.steering, car.steer)]
  ELSE [car EXCEPT
          !.steering = Steering_update(Steering_set_input(car.steering, car.steer),
                                       car.config, dt),
          !.handbrake = Handbrake_update(
                          Handbrake_set_input(car.handbrake, car.hbrake),
                          car.config, dt)]

\* RigidBody.local_to_world(local_pos) - body.position: the arm from the
\* centre of mass to the wheel, in the world frame
wheel_arm(cfg, w, cy, sy) ==
  Vec(RotX(get_wheel_position_local(cfg, w).x, get_wheel_position_local(cfg, w).y,
           cy, sy),
      RotY(get_wheel_position_local(cfg, w).x, get_wheel_position_local(cfg, w).y,
           cy, sy))

\* RigidBody.get_velocity_at_point, r the arm to the point
get_velocity_at_point(body, r) ==
  Vec(body.velocity.x - Div(Div(body.angular_velocity, 100) * r.y, MILLI),
      body.velocity.y + Div(Div(body.angular_velocity, 100) * r.x, MILLI))

\* Car.physics_step, lines 388-395: the drag of magnitude drag_force against
\* the velocity
drag_against(velocity, speed, drag_force) ==
  Vec(-Div(drag_force * MulDiv(velocity.x, MILLI, speed), MILLI),
      -Div(drag_force * MulDiv(velocity.y, MILLI, speed), MILLI))

\* Car.physics_step, lines 388-395: 0.5 * 0.3 * 2.2 * 1.225 * speed^2 above
\* 0.1 m/s
drag_at(velocity, speed) ==
  IF speed > 1000
  THEN drag_against(velocity, speed,
                    Div(((Div(speed, 100) * Div(speed, 100)) \div MILLI) * 404,
                        TU_PER_SEC))
  ELSE Zero2

\* Car.physics_step, lines 388-395
air_resistance(velocity) == drag_at(velocity, Hypot(velocity.x, velocity.y))

\* Car.physics_step, lines 379-380: the torque of the world-frame force f at
\* the arm r
arm_torque(r, f) == Div(r.x * f.y - r.y * f.x, TU_PER_SEC)

\* Car.physics_step, lines 384-405, with the engine following the rear wheels
\* as they spun before the tires were updated
step_integrate_engine_first(car, cfg, loads, hb, tires, fw, arm, drag, dt) ==
  [car EXCEPT
     !.wheel_loads = loads,
     !.handbrake = hb,
     !.tires = tires,
     !.body = integrate(
                [car.body EXCEPT
                   !.force = Vec(car.body.force.x + fw.FL.x + fw.FR.x + fw.RL.x
                                 + fw.RR.x + drag.x,
                                 car.body.force.y + fw.FL.y + fw.FR.y + fw.RL.y
                                 + fw.RR.y + drag.y),
                   !.torque = car.body.torque
                              + arm_torque(arm.FL, fw.FL) + arm_torque(arm.FR, fw.FR)
                              + arm_torque(arm.RL, fw.RL) + arm_torque(arm.RR, fw.RR)],
                cfg.mass, cfg.inertia, dt),
     !.engine_rpm = update_engine_rpm(cfg, car.engine_rpm,
                                      Div(car.tires.RL.angular_velocity
                                          + car.tires.RR.angular_velocity, 2), dt)]

\* Car.physics_step, lines 384-405: the tire forces and the drag applied to
\* the body, the body integrated, the engine following the rear wheels
step_integrate(car, cfg, loads, hb, tires, fw, arm, drag, dt) ==
  [car EXCEPT
     !.wheel_loads = loads,
     !.handbrake = hb,
     !.tires = tires,
     !.body = integrate(
                [car.body EXCEPT
                   !.force = Vec(car.body.force.x + fw.FL.x + fw.FR.x + fw.RL.x
                                 + fw.RR.x + drag.x,
                                 car.body.force.y + fw.FL.y + fw.FR.y + fw.RL.y
                                 + fw.RR.y + drag.y),
                   !.torque = car.body.torque
                              + arm_torque(arm.FL, fw.FL) + arm_torque(arm.FR, fw.FR)
                              + arm_torque(arm.RL, fw.RL) + arm_torque(arm.RR, fw.RR)],
                cfg.mass, cfg.inertia, dt),
     !.engine_rpm = update_engine_rpm(cfg, car.engine_rpm,
                                      Div(tires.RL.angular_velocity
                                          + tires.RR.angular_velocity, 2), dt)]

\* Car.physics_step, lines 372-375: each updated tire's force in the world
\* frame
step_forces(car, cfg, loads, hb, heading, arm, tires, dt) ==
  step_integrate(car, cfg, loads, hb, tires,
                 [FL |-> get_forces_world(tires.FL, heading.FL),
                  FR |-> get_forces_world(tires.FR, heading.FR),
                  RL |-> get_forces_world(tires.RL, heading.RL),
                  RR |-> get_forces_world(tires.RR, heading.RR)],
                 arm, air_resistance(car.body.velocity), dt)

\* Car.physics_step, lines 327-369: the loop over the wheels
step_tires(car, cfg, loads, hb, heading, drive, brake, arm, dt) ==
  step_forces(car, cfg, loads, hb, heading, arm,
              [FL |-> Tire_update(car.tires.FL, cfg.tire_config,
                                  get_velocity_at_point(car.body, arm.FL),
                                  heading.FL, loads.FL, 0, brake.FL, dt),
               FR |-> Tire_update(car.tires.FR, cfg.tire_config,
                                  get_velocity_at_point(car.body, arm.FR),
                                  heading.FR, loads.FR, 0, brake.FR, dt),
               RL |-> Tire_update(car.tires.RL, cfg.tire_config,
                                  get_velocity_at_point(car.body, arm.RL),
                                  heading.RL, loads.RL, drive[1], brake.RL, dt),
               RR |-> Tire_update(car.tires.RR, cfg.tire_config,
                                  get_velocity_at_point(car.body, arm.RR),
                                  heading.RR, loads.RR, drive[2], brake.RR, dt)],
              dt)

\* Car.physics_step, lines 327-359: each wheel's heading, brake torque and
\* arm
step_wheels(car, cfg, loads, angles, drive, brakes, hb_torque, hb, yaw, cy, sy, dt) ==
  step_tires(car, cfg, loads, hb,
             [FL |-> yaw + angles[1], FR |-> yaw + angles[2],
              RL |-> yaw, RR |-> yaw],
             drive,
             [FL |-> brakes.FL, FR |-> brakes.FR,
              RL |-> brakes.RL + hb_torque, RR |-> brakes.RR + hb_torque],
             [FL |-> wheel_arm(cfg, "FL", cy, sy), FR |-> wheel_arm(cfg, "FR", cy, sy),
              RL |-> wheel_arm(cfg, "RL", cy, sy), RR |-> wheel_arm(cfg, "RR", cy, sy)],
             dt)

\* Car.physics_step, lines 300-321: wheel loads, steering angles, drive and
\* brake torques
step_torques(car, cfg, omega_L, omega_R, dt) ==
  step_wheels(car, cfg,
              calculate_loads_simple(cfg, car.longitudinal_accel, car.lateral_accel),
              get_wheel_angles(cfg, car.steering.current_input),
              get_drive_torques(cfg, car.engine_rpm, car.throttle, omega_L, omega_R),
              get_brake_torques(cfg, car.brake),
              Handbrake_base_torque(car.handbrake, cfg),
              Handbrake_lock_flags(car.handbrake, cfg, omega_L, omega_R),
              YawMrad(car.body.orientation),
              Cos(YawMrad(car.body.orientation)),
              Sin(YawMrad(car.body.orientation)),
              dt)

\* Car.physics_step, lines 300-405, for a car whose accelerations are updated
step_accelerated(car, dt) ==
  step_torques(car, car.config, car.tires.RL.angular_velocity,
               car.tires.RR.angular_velocity, dt)

\* Car.physics_step, lines 297-405, for a car whose sub-systems have advanced
step_dynamics(car, dt) == step_accelerated(update_accelerations(car, dt), dt)

\* Car.physics_step: the car after the call, and whether the call raised
physics_step(car, dt) ==
  IF Steering_update_raises(car.config)
  THEN [car |-> step_subsystems(car, dt), raised |-> "ZeroDivisionError"]
  ELSE [car |-> step_dynamics(step_subsystems(car, dt), dt), raised |-> "none"]

\* Car.reset(position, orientation)
Car_reset(car, position, orientation) ==
  [car EXCEPT
     !.body = [RigidBody_reset(car.body) EXCEPT !.position = position,
                                                !.orientation = orientation],
     !.tires = [FL |-> Tire_reset(car.tires.FL), FR |-> Tire_reset(car.tires.FR),
                RL |-> Tire_reset(car.tires.RL), RR |-> Tire_reset(car.tires.RR)],
     !.handbrake = [engagement |-> 0, target |-> 0,
                    left_locked |-> FALSE, right_locked |-> FALSE],
     !.throttle = 0, !.brake = 0, !.steer = 0, !.hbrake = 0,
     !.prev_velocity = Zero2,
     !.longitudinal_accel = 0, !.lateral_accel = 0,
     !.wheel_loads = get_static_loads(car.config)]

\* Car.set_velocity: the wheels roll at the given speed
set_wheel_speeds(car, tc, speed) ==
  [car EXCEPT
     !.tires = [FL |-> set_angular_velocity_from_speed(car.tires.FL, tc, speed),
                FR |-> set_angular_velocity_from_speed(car.tires.FR, tc, speed),
                RL |-> set_angular_velocity_from_speed(car.tires.RL, tc, speed),
                RR |-> set_angular_velocity_from_speed(car.tires.RR, tc, speed)]]

\* Car.set_velocity(speed) along the current heading
set_velocity(car, speed) ==
  set_wheel_speeds(
    [car EXCEPT
       !.body.velocity = Vec(MulDiv(speed, Cos(YawMrad(car.body.orientation)), MILLI),
                             MulDiv(speed, Sin(YawMrad(car.body.orientation)), MILLI))],
    car.config.tire_config, speed)


(***************************************************************************)
(* World                                                                   *)
(***************************************************************************)
max_steps_per_frame == 20

RECURSIVE step_vehicles(_, _, _)
\* World.step, the loop body for vehicle i given the result r of its
\* physics step: an exception ends the loop
step_vehicle(vehicles, dt, i, r) ==
  IF r.raised # "none"
  THEN [vehicles |-> [vehicles EXCEPT ![i] = r.car], done |-> i - 1,
        raised |-> r.raised]
  ELSE step_vehicles([vehicles EXCEPT ![i] = r.car], dt, i + 1)

\* the loop of World.step over the vehicles from index i on: the vehicles
\* after the loop, how many completed their physics step, and the exception
\* that ended the loop early
step_vehicles(vehicles, dt, i) ==
  IF i > Len(vehicles) THEN [vehicles |-> vehicles, done |-> i - 1, raised |-> "none"]
  ELSE step_vehicle(vehicles, dt, i, physics_step(vehicles[i], dt))

\* World.step that forgets to advance the clock
World_step_timeless(w, r) ==
  [world |-> [w EXCEPT !.vehicles = r.vehicles], done |-> r.done, raised |-> r.raised]

\* World.step given the result r of the loop over the vehicles: time
\* advances only when no vehicle raised
World_step_after(w, r) ==
  [world |-> [w EXCEPT !.vehicles = r.vehicles,
                       !.time = IF r.raised = "none" THEN w.time + w.dt
                                ELSE w.time],
   done |-> r.done, raised |-> r.raised]

\* World.step
World_step(w) == World_step_after(w, step_vehicles(w.vehicles, w.dt, 1))

RECURSIVE CountTicks(_, _, _)
\* ticks with one more physics step for each of the first done vehicles
CountTicks(ticks, done, i) ==
  IF i > Len(ticks) THEN ticks
  ELSE CountTicks([ticks EXCEPT ![i] = IF i <= done THEN @ + 1 ELSE @], done, i + 1)

RECURSIVE step_fixed_loop(_, _, _)
\* one turn of the while loop of World.step_fixed, r the result of
\* World.step
step_fixed_turn(w, steps, ticks, r) ==
  IF r.raised # "none"
  THEN [world |-> r.world, steps |-> steps, ticks |-> CountTicks(ticks, r.done, 1),
        raised |-> r.raised]
  ELSE step_fixed_loop([r.world EXCEPT !.accumulator = r.world.accumulator - w.dt],
                       steps + 1, CountTicks(ticks, r.done, 1))

\* the while loop of World.step_fixed with the cap tested by <= instead of <
step_fixed_loop_inclusive(w, steps, ticks) ==
  IF w.accumulator >= w.dt /\ steps <= max_steps_per_frame
  THEN step_fixed_turn(w, steps, ticks, World_step(w))
  ELSE [world |-> w, steps |-> steps, ticks |-> ticks, raised |-> "none"]

\* the while loop of World.step_fixed; ticks[i] counts the physics steps
\* vehicle i completed
step_fixed_loop(w, steps, ticks) ==
  IF w.accumulator >= w.dt /\ steps < max_steps_per_frame
  THEN step_fixed_turn(w, steps, ticks, World_step(w))
  ELSE [world |-> w, steps |-> steps, ticks |-> ticks, raised |-> "none"]

\* the result r of the while loop with the accumulator emptied when the loop
\* stopped at the cap
drop_backlog(r) ==
  IF r.steps = max_steps_per_frame THEN [r EXCEPT !.world.accumulator = 0] ELSE r

\* World.step_fixed(real_dt) that discards the backlog at the cap
step_fixed_drop_backlog(w, real_dt) ==
  drop_backlog(step_fixed_loop([w EXCEPT !.accumulator = w.accumulator + real_dt], 0,
                               SeqMap(LAMBDA v : 0, w.vehicles)))

\* World.step_fixed(real_dt)
step_fixed(w, real_dt) ==
  step_fixed_loop([w EXCEPT !.accumulator = w.accumulator + real_dt], 0,
                  SeqMap(LAMBDA v : 0, w.vehicles))

\* World.update(real_dt, inputs): every vehicle is given the inputs, then
\* step_fixed runs
World_update(w, real_dt, inp) ==
  step_fixed([w EXCEPT !.vehicles =
                SeqMap(LAMBDA v : set_inputs(v, inp[1], inp[2], inp[3], inp[4]),
                       w.vehicles)],
             real_dt)

\* World.reset
World_reset(w) ==
  [w EXCEPT !.time = 0, !.accumulator = 0,
            !.vehicles = SeqMap(LAMBDA v : Car_reset(v, Zero2, 0), w.vehicles)]

\* World.get_interpolation_alpha, in MILLI
get_interpolation_alpha(w) ==
  IF w.dt > 0 THEN Div(w.accumulator * MILLI, w.dt) ELSE 0


(***************************************************************************)
(* DriftDetector (drift/detection.py).  Angles in 1e-3 deg, inputs in      *)
(* MILLI, speed in 1e-4 m/s, times in 1e-4 s.  The arguments of update are *)
(* one record u; drift_angle_rate is not read by the program.              *)
(***************************************************************************)
DRIFT_ANGLE_THRESHOLD == 10000
SLIP_ANGLE_THRESHOLD == 8000
HANDBRAKE_THRESHOLD == 500
THROTTLE_SPIKE_THRESHOLD == 700
history_size == 20

\* DriftDetector()
DriftDetector_init == [
  state |-> "straight", initiation |-> "none",
  state_start_time |-> 0, current_time |-> 0,
  throttle_history |-> << >>, steer_history |-> << >>, angle_history |-> << >>,
  prev_drift_angle |-> 0, prev_drift_direction |-> 0, drift_direction |-> 0]

\* DriftDetector._add_to_history
add_to_history(history, value) ==
  IF Len(history) + 1 > history_size THEN Tail(Append(history, value))
  ELSE Append(history, value)

RECURSIVE SumSeq(_)
\* sum(values)
SumSeq(values) == IF values = << >> THEN 0 ELSE Head(values) + SumSeq(Tail(values))

\* history[-a:-b] (b = 0: history[-a:]), as Python clips the slice
slice_from_end(history, a, b) ==
  SubSeq(history, Max(1, Len(history) - a + 1), Len(history) - b)

\* _detect_initiation: the steering reversal, the averages of the last five
\* and of the five samples before them compared through their sums
steer_reversed(recent_steer, earlier_steer) ==
  /\ recent_steer # << >> /\ earlier_steer # << >>
  /\ SumSeq(recent_steer) * SumSeq(earlier_steer) < 0
  /\ Abs(SumSeq(recent_steer) * Len(earlier_steer)
         - SumSeq(earlier_steer) * Len(recent_steer))
       * 2 > MILLI * Len(recent_steer) * Len(earlier_steer)

\* _detect_initiation: the throttle drop, earlier_avg > 0.5 and recent_avg < 0.2
throttle_dropped(recent_throttle, earlier_throttle) ==
  /\ recent_throttle # << >> /\ earlier_throttle # << >>
  /\ SumSeq(earlier_throttle) * 2 > MILLI * Len(earlier_throttle)
  /\ SumSeq(recent_throttle) * 5 < MILLI * Len(recent_throttle)

\* DriftDetector._detect_initiation on the detector d, whose histories hold
\* the sample of this update; rear and front are twice the slip averages
detect_initiation(d, u, rear, front) ==
  IF u.handbrake > HANDBRAKE_THRESHOLD /\ rear > 2 * SLIP_ANGLE_THRESHOLD
    THEN "handbrake"
  ELSE IF u.throttle > THROTTLE_SPIKE_THRESHOLD /\ rear > front + 2 * 5000
    THEN "power_over"
  ELSE IF u.brake > 300 /\ rear > 2 * SLIP_ANGLE_THRESHOLD
    THEN "braking"
  ELSE IF Len(d.steer_history) >= 10
          /\ steer_reversed(slice_from_end(d.steer_history, 5, 0),
                            slice_from_end(d.steer_history, 10, 5))
    THEN "feint"
  ELSE IF Len(d.throttle_history) >= 5
          /\ throttle_dropped(slice_from_end(d.throttle_history, 3, 0),
                              slice_from_end(d.throttle_history, 6, 3))
    THEN "lift_off"
  ELSE "none"

\* a change of regime that keeps the initiation tag, also into Straight
transition_state_tagged(d, new_state, sim_time) ==
  [d EXCEPT !.state = new_state, !.state_start_time = sim_time]

\* a change of regime that keeps the old entry time
transition_state_untimed(d, new_state, sim_time) ==
  [d EXCEPT !.state = new_state,
            !.initiation = IF new_state = "straight" THEN "none" ELSE @]

\* DriftDetector._transition_state
transition_state(d, new_state, sim_time) ==
  [d EXCEPT !.state = new_state, !.state_start_time = sim_time,
            !.initiation = IF new_state = "straight" THEN "none" ELSE @]

\* the direction of any drift angle but zero
drift_direction_any(drift_angle) ==
  IF drift_angle > 0 THEN 1 ELSE IF drift_angle < 0 THEN -1 ELSE 0

\* DriftDetector.update: the drift direction
drift_direction_of(drift_angle) ==
  IF Abs(drift_angle) > DRIFT_ANGLE_THRESHOLD
    THEN (IF drift_angle > 0 THEN 1 ELSE -1)
    ELSE 0

\* DriftDetector.update: the histories, the time and the direction
update_history(d, u) ==
  [d EXCEPT !.current_time = u.sim_time,
            !.throttle_history = add_to_history(@, u.throttle),
            !.steer_history = add_to_history(@, u.steer),
            !.angle_history = add_to_history(@, u.drift_angle),
            !.drift_direction = drift_direction_of(u.drift_angle)]

\* DriftDetector.update: Straight enters Initiating and tags the initiation
enter_initiating(d, u) ==
  [transition_state(d, "initiating", u.sim_time) EXCEPT
     !.initiation = detect_initiation(d, u, Abs(u.rear_slip_L) + Abs(u.rear_slip_R),
                                      Abs(u.front_slip_L) + Abs(u.front_slip_R))]

\* the Initiating branch with the test for an established drift made first
update_initiating_eager(d, u, abs_angle, state_duration) ==
  IF state_duration > 3000 \/ abs_angle > Div(DRIFT_ANGLE_THRESHOLD * 15, 10)
    THEN transition_state(d, "drifting", u.sim_time)
  ELSE IF abs_angle < Div(DRIFT_ANGLE_THRESHOLD * 7, 10)
    THEN transition_state(d, "straight", u.sim_time)
  ELSE d

\* DriftDetector.update: the state machine while Initiating
update_initiating(d, u, abs_angle, state_duration) ==
  IF abs_angle < Div(DRIFT_ANGLE_THRESHOLD * 7, 10)
    THEN transition_state(d, "straight", u.sim_time)
  ELSE IF state_duration > 3000 \/ abs_angle > Div(DRIFT_ANGLE_THRESHOLD * 15, 10)
    THEN transition_state(d, "drifting", u.sim_time)
  ELSE d

\* the state machine with no time limit on Transitioning
update_state_unlimited(d, u, abs_angle, state_duration) ==
  IF d.state = "straight"
    THEN (IF u.speed > 30000 /\ abs_angle > DRIFT_ANGLE_THRESHOLD
            THEN enter_initiating(d, u) ELSE d)
  ELSE IF d.state = "initiating"
    THEN update_initiating(d, u, abs_angle, state_duration)
  ELSE IF d.state = "drifting"
    THEN (IF d.prev_drift_direction # 0 /\ d.drift_direction # 0
             /\ d.prev_drift_direction # d.drift_direction
            THEN transition_state(d, "transitioning", u.sim_time)
          ELSE IF abs_angle < Div(DRIFT_ANGLE_THRESHOLD * 7, 10)
            THEN transition_state(d, "recovering", u.sim_time)
          ELSE d)
  ELSE IF d.state = "transitioning"
    THEN (IF abs_angle > DRIFT_ANGLE_THRESHOLD
            THEN transition_state(d, "drifting", u.sim_time)
          ELSE d)
  ELSE (IF abs_angle > DRIFT_ANGLE_THRESHOLD
          THEN transition_state(d, "drifting", u.sim_time)
        ELSE IF abs_angle < 5000 /\ state_duration > 5000
          THEN transition_state(d, "straight", u.sim_time)
        ELSE d)

\* DriftDetector.update: the state machine
update_state(d, u, abs_angle, state_duration) ==
  IF d.state = "straight"
    THEN (IF u.speed > 30000 /\ abs_angle > DRIFT_ANGLE_THRESHOLD
            THEN enter_initiating(d, u) ELSE d)
  ELSE IF d.state = "initiating"
    THEN update_initiating(d, u, abs_angle, state_duration)
  ELSE IF d.state = "drifting"
    THEN (IF d.prev_drift_direction # 0 /\ d.drift_direction # 0
             /\ d.prev_drift_direction # d.drift_direction
            THEN transition_state(d, "transitioning", u.sim_time)
          ELSE IF abs_angle < Div(DRIFT_ANGLE_THRESHOLD * 7, 10)
            THEN transition_state(d, "recovering", u.sim_time)
          ELSE d)
  ELSE IF d.state = "transitioning"
    THEN (IF abs_angle > DRIFT_ANGLE_THRESHOLD
            THEN transition_state(d, "drifting", u.sim_time)
          ELSE IF state_duration > 10000
            THEN transition_state(d, "recovering", u.sim_time)
          ELSE d)
  ELSE (IF abs_angle > DRIFT_ANGLE_THRESHOLD
          THEN transition_state(d, "drifting", u.sim_time)
        ELSE IF abs_angle < 5000 /\ state_duration > 5000
          THEN transition_state(d, "straight", u.sim_time)
        ELSE d)

\* DriftDetector.update: the previous values kept for the next update
update_previous(d, u) ==
  [d EXCEPT !.prev_drift_angle = u.drift_angle,
            !.prev_drift_direction = d.drift_direction]

\* DriftDetector.update(drift_angle, ..., sim_time): the detector after it
DriftDetector_update(d, u) ==
  update_previous(
    update_state(update_history(d, u), u, Abs(u.drift_angle),
                 u.sim_time - d.state_start_time),
    u)

\* DriftDetector.reset
DriftDetector_reset(d) ==
  [d EXCEPT !.state = "straight", !.initiation = "none", !.state_start_time = 0,
            !.throttle_history = << >>, !.steer_history = << >>,
            !.angle_history = << >>, !.prev_drift_angle = 0,
            !.prev_drift_direction = 0, !.drift_direction = 0]

(***************************************************************************)
(* DriftAnalyzer (drift/metrics.py).  Angles in 1e-3 deg, orientation in   *)
(* mrad, speeds in 1e-4 m/s, times in 1e-4 s, distance in 1e-4 m, the      *)
(* quality scores in MILLI, overall_score in 1e-3 points (100000 is 100).  *)
(* The arguments of update are one record u.  None is the empty sequence,  *)
(* a start time t is <<t>>.                                                *)
(***************************************************************************)
DRIFT_ANGLE_MIN == 10000
DRIFT_ANGLE_OPTIMAL == 35000
DRIFT_ANGLE_MAX == 60000
DRIFT_SPEED_MIN == 50000
angle_history_size == 30

\* DriftAnalyzer()
DriftAnalyzer_init == [
  angle_history |-> << >>, drift_start_time |-> << >>, drift_distance |-> 0,
  prev_drift_angle |-> 0, smoothed_angle |-> 0, smoothed_rate |-> 0]

RECURSIVE wrap_slip_angle(_)
\* the two while loops of calculate_drift_angle, on mrad
wrap_slip_angle(angle) ==
  IF angle > PI THEN wrap_slip_angle(angle - 2 * PI)
  ELSE IF angle < -PI THEN wrap_slip_angle(angle + 2 * PI)
  ELSE angle

\* DriftAnalyzer.calculate_drift_angle
calculate_drift_angle(velocity, orientation) ==
  IF Hypot(velocity.x, velocity.y) < 5000 THEN 0
  ELSE degrees(wrap_slip_angle(Atan2(velocity.y, velocity.x) - orientation))

\* DriftAnalyzer.is_counter_steering
is_counter_steering(steer_angle, drift_direction) ==
  IF drift_direction = 0 THEN FALSE
  ELSE \/ (drift_direction > 0 /\ steer_angle < -5000)
       \/ (drift_direction < 0 /\ steer_angle > 5000)

RECURSIVE SumSquares(_, _)
\* sum((a - mean_angle) ** 2 for a in values), deviations in 0.1 deg
SumSquares(values, mean_angle) ==
  IF values = << >> THEN 0
  ELSE Div(Head(values) - mean_angle, 100) * Div(Head(values) - mean_angle, 100)
         + SumSquares(Tail(values), mean_angle)

\* the standard deviation of calculate_angle_stability, in 0.1 deg
angle_std_dev(history) ==
  ISqrt(Div(SumSquares(history, Div(SumSeq(history), Len(history))), Len(history)))

\* DriftAnalyzer.calculate_angle_stability
calculate_angle_stability(a) ==
  IF Len(a.angle_history) < 5 THEN 0
  ELSE Max(0, MILLI - Div(angle_std_dev(a.angle_history) * MILLI, 200))

\* the angle score of calculate_drift_score
score_of_angle(angle) ==
  IF angle < DRIFT_ANGLE_MIN THEN 0
  ELSE IF angle < DRIFT_ANGLE_OPTIMAL
       THEN Div((angle - DRIFT_ANGLE_MIN) * MILLI, DRIFT_ANGLE_OPTIMAL - DRIFT_ANGLE_MIN)
  ELSE IF angle < DRIFT_ANGLE_MAX
       THEN MILLI - Div(300 * (angle - DRIFT_ANGLE_OPTIMAL), DRIFT_ANGLE_MAX - DRIFT_ANGLE_OPTIMAL)
  ELSE 500

\* min(1.0, speed * 3.6 / 80.0)
score_of_speed(speed) == Min(MILLI, Div(speed * 36, 8000))

\* raw_score of calculate_drift_score, in MILLI
raw_score(metrics) ==
  Div(score_of_angle(Abs(metrics.drift_angle)) * 400
        + score_of_speed(metrics.speed) * 300
        + metrics.angle_stability * 300, MILLI)
    + (IF metrics.is_counter_steering THEN 100 ELSE 0)

\* calculate_drift_score without the cap at 100
calculate_drift_score_uncapped(metrics) ==
  IF ~metrics.is_drifting THEN 0 ELSE raw_score(metrics) * 100

\* DriftAnalyzer.calculate_drift_score
calculate_drift_score(metrics) ==
  IF ~metrics.is_drifting THEN 0 ELSE Min(100 * MILLI, raw_score(metrics) * 100)

\* update, lines 265-278: smoothing, rate of change and history
analyzer_smoothed(a, drift_angle, dt, alpha) ==
  [a EXCEPT
     !.smoothed_angle = @ + MulDiv(drift_angle - @, alpha, MILLI),
     !.smoothed_rate =
        IF dt > 0
        THEN @ + MulDiv(MulDiv(drift_angle - a.prev_drift_angle, TU_PER_SEC, dt) - @, alpha, MILLI)
        ELSE @,
     !.prev_drift_angle = drift_angle,
     !.angle_history =
        IF Len(@) + 1 > angle_history_size THEN Tail(Append(@, Abs(drift_angle)))
        ELSE Append(@, Abs(drift_angle))]

\* update, lines 293-302, with the distance kept from one drift to the next
analyzer_tracked_kept(a, is_drifting, speed, dt, sim_time) ==
  IF is_drifting
  THEN [a EXCEPT
          !.drift_start_time = IF @ = << >> THEN <<sim_time>> ELSE @,
          !.drift_distance = @ + MulDiv(speed, dt, TU_PER_SEC)]
  ELSE [a EXCEPT !.drift_start_time = << >>]

\* update, lines 293-302: drift duration and distance
analyzer_tracked(a, is_drifting, speed, dt, sim_time) ==
  IF is_drifting
  THEN [a EXCEPT
          !.drift_start_time = IF @ = << >> THEN <<sim_time>> ELSE @,
          !.drift_distance =
             (IF a.drift_start_time = << >> THEN 0 ELSE @) + MulDiv(speed, dt, TU_PER_SEC)]
  ELSE [a EXCEPT !.drift_start_time = << >>, !.drift_distance = 0]

\* update, lines 315-330: the DriftMetrics built from the updated analyzer
analyzer_metrics(a, u, drift_angle, drift_direction, is_drifting, counter) ==
  [drift_angle |-> drift_angle,
   drift_angle_rate |-> a.smoothed_rate,
   drift_direction |-> drift_direction,
   speed |-> u.speed,
   forward_speed |-> MulDiv(Hypot(u.velocity.x, u.velocity.y), Cos(radians(drift_angle)), MILLI),
   lateral_speed |-> MulDiv(Hypot(u.velocity.x, u.velocity.y), Sin(radians(drift_angle)), MILLI),
   yaw_rate |-> u.yaw_rate,
   counter_steer_angle |-> IF counter THEN u.steer_angle_deg ELSE 0,
   throttle |-> u.throttle,
   is_counter_steering |-> counter,
   is_drifting |-> is_drifting,
   drift_duration |-> IF is_drifting THEN u.sim_time - a.drift_start_time[1] ELSE 0,
   drift_distance |-> a.drift_distance,
   angle_stability |-> calculate_angle_stability(a),
   speed_score |-> 0, angle_score |-> 0, overall_score |-> 0]

\* update, lines 333-335: the scores written into the metrics
analyzer_scored(metrics) ==
  [metrics EXCEPT
     !.angle_score =
        IF metrics.is_drifting THEN Div(Abs(metrics.drift_angle) * MILLI, DRIFT_ANGLE_OPTIMAL)
        ELSE 0,
     !.speed_score = score_of_speed(metrics.speed),
     !.overall_score = calculate_drift_score(metrics)]

\* update, lines 280-290: the direction and the drift test
analyzer_judged(a, u, drift_angle, drift_direction, is_drifting) ==
  [analyzer |-> analyzer_tracked(a, is_drifting, u.speed, u.dt, u.sim_time),
   metrics |->
     analyzer_scored(
       analyzer_metrics(analyzer_tracked(a, is_drifting, u.speed, u.dt, u.sim_time),
                        u, drift_angle, drift_direction, is_drifting,
                        is_counter_steering(u.steer_angle_deg, drift_direction)))]

\* update with the drift angle taken
analyzer_update_at(a, u, drift_angle) ==
  analyzer_judged(
    analyzer_smoothed(a, drift_angle, u.dt, Min(MILLI, Div(u.dt * 10 * MILLI, TU_PER_SEC))),
    u, drift_angle,
    IF Abs(drift_angle) > DRIFT_ANGLE_MIN THEN (IF drift_angle > 0 THEN 1 ELSE -1) ELSE 0,
    Abs(drift_angle) > DRIFT_ANGLE_MIN /\ u.speed > DRIFT_SPEED_MIN)

\* DriftAnalyzer.update: the analyzer after the call and the metrics returned
DriftAnalyzer_update(a, u) ==
  analyzer_update_at(a, u, calculate_drift_angle(u.velocity, u.orientation))

\* DriftAnalyzer.reset
DriftAnalyzer_reset(a) ==
  [a EXCEPT !.angle_history = << >>, !.drift_start_time = << >>,
            !.drift_distance = 0, !.prev_drift_angle = 0,
            !.smoothed_angle = 0, !.smoothed_rate = 0]

(***************************************************************************)
(* The program as a state machine: a World and the calls made on it        *)
(***************************************************************************)
\* world: the World under simulation; last: the record of the last call;
\* calls: the calls made so far; component: an object used on its own,
\* outside a world (a configuration, a filter, a detector), "none" when
\* there is none
VARIABLES world, last, calls, component

vars == <<world, last, calls, component>>

\* bounds of the exploration
MaxCalls == 2
MaxVehicles == 1

\* World(dt): the default step of 1 ms, and a zero step
Dts == {10, 0}
\* real_dt passed to step_fixed/update: negative, one and a half steps of
\* 1 ms, and ten seconds
RealDts == {-5, 15, 100000}
\* <<throttle, brake, steer, handbrake>> passed to set_inputs, in and out of range
InputChoices == {<<800, 0, 500, 0>>, <<1500, -500, -2000, 3000>>}
NoInputs == <<0, 0, 0, 0>>
\* position and orientation passed to Car.reset
ResetPoses == {[position |-> Vec(50000, -30000), orientation |-> 1000000],
               [position |-> Zero2, orientation |-> -700000]}
\* speed passed to Car.set_velocity
Speeds == {100000}

NoTicks(w) == SeqMap(LAMBDA v : 0, w.vehicles)

\* the record of the last call: its arguments, its return value (-1 when it
\* returned none), the exception it raised, the physics steps each vehicle
\* completed in it, and the world it was made on
Called(op, real_dt, inputs, ret, raised, ticks) ==
  [op |-> op, real_dt |-> real_dt, inputs |-> inputs, ret |-> ret,
   raised |-> raised, ticks |-> ticks, before |-> world]

Init ==
  /\ \E dt \in Dts :
       world = [dt |-> dt, time |-> 0, accumulator |-> 0, vehicles |-> << >>]
  /\ calls = 0
  /\ last = [op |-> "init", real_dt |-> 0, inputs |-> NoInputs, ret |-> -1,
             raised |-> "none", ticks |-> << >>, before |-> << >>]
  /\ component = "none"

\* World.add_vehicle(Car(cfg))
AddVehicle(cfg) ==
  /\ Len(world.vehicles) < MaxVehicles
  /\ world' = [world EXCEPT !.vehicles = Append(@, FreshCar(cfg))]
  /\ last' = Called("add_vehicle", 0, NoInputs, -1, "none", NoTicks(world))
  /\ UNCHANGED <<calls, component>>

\* vehicles[i].set_inputs(throttle, brake, steer, handbrake)
SetInputs(i, inp) ==
  /\ calls < MaxCalls
  /\ world' = [world EXCEPT !.vehicles[i] = set_inputs(@, inp[1], inp[2], inp[3], inp[4])]
  /\ last' = Called("set_inputs", 0, inp, -1, "none", NoTicks(world))
  /\ calls' = calls + 1
  /\ UNCHANGED component

\* World.step()
Step ==
  /\ calls < MaxCalls
  /\ \E r \in {World_step(world)} :
        /\ world' = r.world
        /\ last' = Called("step", 0, NoInputs, -1, r.raised,
                          SeqMap(LAMBDA i : IF i <= r.done THEN 1 ELSE 0,
                                 Indices(world.vehicles)))
  /\ calls' = calls + 1
  /\ UNCHANGED component

\* World.step_fixed(real_dt)
StepFixed(real_dt) ==
  /\ calls < MaxCalls
  /\ \E r \in {step_fixed(world, real_dt)} :
        /\ world' = r.world
        /\ last' = Called("step_fixed", real_dt, NoInputs,
                          IF r.raised = "none" THEN r.steps ELSE -1, r.raised, r.ticks)
  /\ calls' = calls + 1
  /\ UNCHANGED component

\* World.update(real_dt, inputs)
Update(real_dt, inp) ==
  /\ calls < MaxCalls
  /\ \E r \in {World_update(world, real_dt, inp)} :
        /\ world' = r.world
        /\ last' = Called("update", real_dt, inp,
                          IF r.raised = "none" THEN r.steps ELSE -1, r.raised, r.ticks)
  /\ calls' = calls + 1
  /\ UNCHANGED component

\* World.reset()
Reset ==
  /\ calls < MaxCalls
  /\ world' = World_reset(world)
  /\ last' = Called("reset", 0, NoInputs, -1, "none", NoTicks(world))
  /\ calls' = calls + 1
  /\ UNCHANGED component

\* vehicles[i].reset(position, orientation)
CarReset(i, pose) ==
  /\ calls < MaxCalls
  /\ world' = [world EXCEPT !.vehicles[i] = Car_reset(@, pose.position, pose.orientation)]
  /\ last' = Called("car_reset", 0, NoInputs, -1, "none", NoTicks(world))
  /\ calls' = calls + 1
  /\ UNCHANGED component

\* vehicles[i].set_velocity(speed)
SetVelocity(i, speed) ==
  /\ calls < MaxCalls
  /\ world' = [world EXCEPT !.vehicles[i] = set_velocity(@, speed)]
  /\ last' = Called("set_velocity", 0, NoInputs, -1, "none", NoTicks(world))
  /\ calls' = calls + 1
  /\ UNCHANGED component

Next ==
  \/ \E cfg \in Configs : AddVehicle(cfg)
  \/ \E i \in DOMAIN world.vehicles, inp \in InputChoices : SetInputs(i, inp)
  \/ Step
  \/ \E real_dt \in RealDts : StepFixed(real_dt)
  \/ \E real_dt \in RealDts, inp \in InputChoices : Update(real_dt, inp)
  \/ Reset
  \/ \E i \in DOMAIN world.vehicles, pose \in ResetPoses : CarReset(i, pose)
  \/ \E i \in DOMAIN world.vehicles, speed \in Speeds : SetVelocity(i, speed)

Spec == Init /\ [][Next]_vars

(***************************************************************************)
(* Configurations: the preset factories and the constructor of Car, used   *)
(* on their own.  component holds what the last call returned.             *)
(***************************************************************************)

\* values given to the fields of CarConfig and TireConfig the constructor is
\* handed: the sport value, zero, a negative one, and for cg_to_front one
\* beyond the wheelbase
MassChoices == {1400, 0, -5}
InertiaChoices == {2500, 0}
WheelbaseChoices == {27000, 0, -10000}
TrackChoices == {15000, 0}
CgToFrontChoices == {14000, 0, 50000}
RadiusChoices == {3200, 0, -3000}

ConfigChoices ==
  {[CarConfig_sport EXCEPT !.mass = m, !.inertia = iz, !.wheelbase = wb,
                           !.track_front = tf, !.cg_to_front = cg,
                           !.tire_config.radius = r] :
     m \in MassChoices, iz \in InertiaChoices, wb \in WheelbaseChoices,
     tf \in TrackChoices, cg \in CgToFrontChoices, r \in RadiusChoices}

\* names asked of the factories: every key, and names that are no key
PresetNames ==
  {"sport", "drift", "street", "rain", "semi_slick", "sport_coupe",
   "drift_car", "muscle", "hot_hatch", "formula", "touring", "Sport", ""}

StandaloneInit ==
  /\ world = [dt |-> 10, time |-> 0, accumulator |-> 0, vehicles |-> << >>]
  /\ calls = 0
  /\ last = [op |-> "init", raised |-> "none"]

ConfigInit == StandaloneInit /\ component = "none"

\* Car(cfg)
NewCar(cfg) ==
  /\ \E r \in {Car_init(cfg)} :
        /\ component' = r.car
        /\ last' = [op |-> "Car", config |-> cfg, raised |-> r.raised]
  /\ UNCHANGED <<world, calls>>

\* get_vehicle_config(preset_name)
GetVehicleConfig(preset_name) ==
  /\ \E r \in {get_vehicle_config(preset_name)} :
        /\ component' = IF r.raised = "none" THEN r.config ELSE "none"
        /\ last' = r @@ [op |-> "get_vehicle_config", preset_name |-> preset_name]
  /\ UNCHANGED <<world, calls>>

\* get_tire_config(preset_name)
GetTireConfig(preset_name) ==
  /\ \E r \in {get_tire_config(preset_name)} :
        /\ component' = IF r.raised = "none" THEN r.config ELSE "none"
        /\ last' = r @@ [op |-> "get_tire_config", preset_name |-> preset_name]
  /\ UNCHANGED <<world, calls>>

ConfigNext ==
  \/ \E cfg \in ConfigChoices : NewCar(cfg)
  \/ \E preset_name \in PresetNames : GetVehicleConfig(preset_name)
  \/ \E preset_name \in PresetNames : GetTireConfig(preset_name)

ConfigSpec == ConfigInit /\ [][ConfigNext]_vars

(***************************************************************************)
(* CombinedSlip on its own: calculate asked of a CombinedSlip built on the  *)
(* curve of each tire preset, with friction multiplier 1.                  *)
(***************************************************************************)

\* CombinedSlip(PacejkaFormula(params), friction_mu=1.0)
CombinedSlips ==
  {[pacejka_params |-> TIRE_PRESETS[i].config.pacejka_params, friction_mu |-> MILLI] :
     i \in DOMAIN TIRE_PRESETS}

\* slip ratios from locked to spinning, slip angles in 1e-3 deg, loads in N
SlipRatios == {-1000, -180, 0, 100, 1000}
SlipAngles == {-30000, 0, 4000, 60000}
Loads == {0, 500, 4000, 8000}
Methods == {"simple", "vector", "empirical"}

\* calls made on one object on its own
MaxQueries == 1

CombinedInit ==
  /\ StandaloneInit
  /\ component \in CombinedSlips

\* CombinedSlip.calculate(slip_ratio, slip_angle_deg, Fz, method=method)
Calculate(ratio, slip_angle_deg, Fz, method) ==
  /\ calls < MaxQueries
  /\ calls' = calls + 1
  /\ last' = [op |-> "calculate", raised |-> "none", slip_ratio |-> ratio,
              slip_angle_deg |-> slip_angle_deg, Fz |-> Fz, method |-> method,
              ret |-> CombinedSlip_calculate(component, ratio,
                                             slip_angle_deg, Fz, method)]
  /\ UNCHANGED <<world, component>>

CombinedNext ==
  \E ratio \in SlipRatios, slip_angle_deg \in SlipAngles, Fz \in Loads,
     method \in Methods : Calculate(ratio, slip_angle_deg, Fz, method)

CombinedSpec == CombinedInit /\ [][CombinedNext]_vars

(***************************************************************************)
(* TireRelaxation on its own: a filter with the relaxation lengths of a    *)
(* tire preset, updated towards targets at a speed over a time step.       *)
(***************************************************************************)

\* updates made on one filter
MaxUpdates == 2

\* <<target_Fx, target_Fy>> in N; velocity in 1e-4 m/s (standing, 30 m/s);
\* dt in 1e-4 s (nothing, 1 ms, 2 s)
Targets == {<<-3000, 2500>>, <<0, 0>>, <<2500, -3000>>}
Velocities == {0, 300000}
UpdateDts == {0, 10, 20000}

\* TireRelaxation(relaxation_length_x, relaxation_length_y)
RelaxationInit ==
  /\ StandaloneInit
  /\ \E i \in DOMAIN TIRE_PRESETS :
       component = [sigma_x |-> TIRE_PRESETS[i].config.relaxation_length_x,
                    sigma_y |-> TIRE_PRESETS[i].config.relaxation_length_y,
                    Fx |-> 0, Fy |-> 0]

\* the record of an update of the filter
Updated(op, target, velocity, dt) ==
  [op |-> op, raised |-> "none", target_Fx |-> target[1], target_Fy |-> target[2],
   velocity |-> velocity, dt |-> dt, was |-> component]

\* TireRelaxation.update(target_Fx, target_Fy, velocity, dt)
RelaxationUpdate(target, velocity, dt) ==
  /\ calls < MaxUpdates
  /\ component' = TireRelaxation_update(component, target[1], target[2], velocity, dt)
  /\ last' = Updated("update", target, velocity, dt)
  /\ calls' = calls + 1
  /\ UNCHANGED world

\* TireRelaxation.update_simple(target_Fx, target_Fy, velocity, dt)
RelaxationUpdateSimple(target, velocity, dt) ==
  /\ calls < MaxUpdates
  /\ component' = TireRelaxation_update_simple(component, target[1], target[2],
                                               velocity, dt)
  /\ last' = Updated("update_simple", target, velocity, dt)
  /\ calls' = calls + 1
  /\ UNCHANGED world

RelaxationNext ==
  \/ \E target \in Targets, velocity \in Velocities, dt \in UpdateDts :
       RelaxationUpdate(target, velocity, dt)
  \/ \E target \in Targets, velocity \in Velocities, dt \in UpdateDts :
       RelaxationUpdateSimple(target, velocity, dt)

RelaxationSpec == RelaxationInit /\ [][RelaxationNext]_vars

(***************************************************************************)
(* DriftDetector on its own: a detector that has seen a run of updates is  *)
(* given further updates and resets.                                       *)
(***************************************************************************)

\* updates made on one detector after its first run
MaxDetections == 3

\* the arguments of one update but sim_time; the two rear slips, and the two
\* front slips, are given with opposite signs
Reading(drift_angle, speed, throttle, brake, steer, handbrake, rear, front) ==
  [drift_angle |-> drift_angle, drift_angle_rate |-> 0, speed |-> speed,
   throttle |-> throttle, brake |-> brake, steer |-> steer,
   handbrake |-> handbrake, rear_slip_L |-> rear, rear_slip_R |-> -rear,
   front_slip_L |-> -front, front_slip_R |-> front]

\* driving straight at 10 m/s: on and off the throttle, steering left, right
\* or not at all
SteerLeftOn == Reading(0, 100000, 800, 0, -600, 0, 0, 0)
SteerRightOff == Reading(0, 100000, 0, 0, 600, 0, 0, 0)
CoastOn == Reading(0, 100000, 800, 0, 0, 0, 0, 0)
CoastOff == Reading(0, 100000, 0, 0, 0, 0, 0, 0)
\* a drift angle of 12 deg with handbrake, throttle and brake applied and the
\* rear slipping 9 deg; with the rear slipping 13 deg against 8 deg in front
HandbrakeTurn == Reading(12000, 100000, 800, 500, 600, 1000, 9000, 0)
PowerSlide == Reading(12000, 100000, 800, 500, 600, 0, 13000, 8000)
\* drift angles of 12, -12, 20, 6, -6 and 8 deg with no pedal applied, and
\* 12 deg at 2 m/s
SlideRight == Reading(12000, 100000, 0, 0, 600, 0, 0, 0)
SlideLeft == Reading(-12000, 100000, 0, 0, -600, 0, 0, 0)
SlideWide == Reading(20000, 100000, 0, 0, 600, 0, 0, 0)
SlideSmall == Reading(6000, 100000, 0, 0, 0, 0, 0, 0)
SlideSmallLeft == Reading(-6000, 100000, 0, 0, 0, 0, 0, 0)
SlideMedium == Reading(8000, 100000, 0, 0, 0, 0, 0, 0)
SlideSlow == Reading(12000, 20000, 0, 0, 0, 0, 0, 0)

Readings ==
  {CoastOff, HandbrakeTurn, PowerSlide, SlideRight, SlideLeft, SlideWide,
   SlideSmall, SlideSmallLeft, SlideMedium, SlideSlow}

\* the time from one update to the next: 0.1 s and 0.6 s
TimeSteps == {1000, 6000}

\* the first runs: none; a steering reversal; throttle lifted after two and
\* after three samples; into a drift; more samples than the histories hold
FirstRuns ==
  {<< >>,
   <<SteerLeftOn, SteerLeftOn, SteerLeftOn, SteerLeftOn, SteerLeftOn,
     SteerRightOff, SteerRightOff, SteerRightOff, SteerRightOff>>,
   <<CoastOn, CoastOn, CoastOff, CoastOff>>,
   <<CoastOn, CoastOn, CoastOn, CoastOff, CoastOff>>,
   <<HandbrakeTurn, SlideWide>>,
   [n \in 1..(history_size + 1) |-> IF n % 2 = 0 THEN CoastOn ELSE CoastOff]}

\* the reading r as the arguments of an update made step after the last one
At(d, r, step) == r @@ [sim_time |-> d.current_time + step]

RECURSIVE AfterRun(_, _)
\* the detector d after the updates of a run, 0.1 s apart
AfterRun(d, run) ==
  IF run = << >> THEN d
  ELSE AfterRun(DriftDetector_update(d, At(d, Head(run), 1000)), Tail(run))

DetectorInit ==
  /\ StandaloneInit
  /\ \E run \in FirstRuns : component = AfterRun(DriftDetector_init, run)

\* DriftDetector.update(..., sim_time)
Detect(r, step) ==
  /\ calls < MaxDetections
  /\ component' = DriftDetector_update(component, At(component, r, step))
  /\ last' = [op |-> "update", raised |-> "none",
              args |-> At(component, r, step), was |-> component]
  /\ calls' = calls + 1
  /\ UNCHANGED world

\* DriftDetector.reset()
DetectorReset ==
  /\ calls < MaxDetections
  /\ component' = DriftDetector_reset(component)
  /\ last' = [op |-> "reset", raised |-> "none", was |-> component]
  /\ calls' = calls + 1
  /\ UNCHANGED world

DetectorNext ==
  \/ \E r \in Readings, step \in TimeSteps : Detect(r, step)
  \/ DetectorReset

DetectorSpec == DetectorInit /\ [][DetectorNext]_vars

(***************************************************************************)
(* Steering on its own: get_wheel_angles(steer_input) asked of the         *)
(* steering of each preset vehicle, and of one with parallel steering.     *)
(***************************************************************************)

SteeringConfigs ==
  {VEHICLE_PRESETS[i].config : i \in DOMAIN VEHICLE_PRESETS}
    \cup {[CarConfig_sport EXCEPT !.ackermann_factor = 0]}

\* steer_input from full left to full right, in steps of 0.1
SteerInputs == {100 * k : k \in -10..10}

SteeringInit ==
  /\ StandaloneInit
  /\ \E cfg \in SteeringConfigs :
       component = [config |-> cfg, current_input |-> 0, target_input |-> 0]

\* Steering.get_wheel_angles(steer_input)
GetWheelAngles(steer_input) ==
  /\ last' = [op |-> "get_wheel_angles", raised |-> "none",
              steer_input |-> steer_input,
              ret |-> get_wheel_angles(component.config, steer_input)]
  /\ UNCHANGED <<world, calls, component>>

SteeringNext == \E steer_input \in SteerInputs : GetWheelAngles(steer_input)

SteeringSpec == SteeringInit /\ [][SteeringNext]_vars

(***************************************************************************)
(* DriftAnalyzer on its own: an analyzer that has seen a run of frames is  *)
(* given further frames and resets.  last.frames is the record of every    *)
(* call made on the analyzer since it was built.                           *)
(***************************************************************************)

\* updates and resets made on one analyzer after its first run
MaxFrames == 3

\* the arguments of one update but dt and sim_time: the car moves along x
\* (speeds in m/s) with the heading given in mrad
Frame(vx, orientation, steer_angle_deg, speed) ==
  [velocity |-> Vec(vx * TU_PER_SEC, 0), orientation |-> orientation,
   steer_angle_deg |-> steer_angle_deg, throttle |-> 500, yaw_rate |-> 0,
   speed |-> speed * TU_PER_SEC]

\* no drift angle; 12 deg to the right with counter steer and to the left
\* without; 35 deg at 30 m/s with counter steer; 70 deg; 172 deg backwards;
\* 12 deg at exactly 5 m/s; -8 deg reached by wrapping
Straight10 == Frame(10, 0, 0, 10)
Right12 == Frame(10, -209, -10000, 10)
Left12 == Frame(10, 209, 0, 10)
Right35 == Frame(30, -611, -10000, 30)
Right70 == Frame(10, -1222, 0, 10)
Back172 == Frame(10, 3000, 0, 10)
Five12 == Frame(5, -209, 0, 5)
Wrapped8 == Frame(-10, -3000, 0, 10)

Frames == {Straight10, Right12, Left12, Right35, Right70, Back172, Five12, Wrapped8}

\* dt and the advance of sim_time from one frame to the next: 1/60 s, a frame
\* of no duration, and a frame whose dt is not the advance of the clock
Timings ==
  {[dt |-> 166, step |-> 166], [dt |-> 0, step |-> 0], [dt |-> 1000, step |-> 166]}

\* the first runs: none; four frames of a steady 35 deg drift; a drift that
\* has ended; more frames than the history holds, of changing angle
FirstFrames ==
  {<< >>,
   <<Right35, Right35, Right35, Right35>>,
   <<Right12, Right70, Straight10>>,
   [n \in 1..(angle_history_size + 1) |-> IF n % 2 = 0 THEN Right70 ELSE Left12]}

\* the frame f as the arguments of an update made at the time t
Timed(f, timing, now) == f @@ [dt |-> timing.dt, sim_time |-> now + timing.step]

\* the entry of last.frames for an update with arguments u that returned m
FrameRecord(u, m) ==
  [op |-> "update", sim_time |-> u.sim_time, dt |-> u.dt, speed |-> u.speed,
   drift_angle |-> m.drift_angle]

\* the analyzer and the record of its calls after update(u) returned r
Analyzed(s, u, r) ==
  [analyzer |-> r.analyzer, now |-> u.sim_time, ret |-> r.metrics,
   frames |-> Append(s.frames, FrameRecord(u, r.metrics))]

\* the analyzer and the record of its calls after the frame f, 1/60 s on
AfterFrame(s, u) == Analyzed(s, u, DriftAnalyzer_update(s.analyzer, u))

RECURSIVE AfterFrames(_, _)
\* the analyzer after the updates of a run, 1/60 s apart
AfterFrames(s, run) ==
  IF run = << >> THEN s
  ELSE CHOOSE end \in
         {AfterFrames(t, Tail(run)) :
            t \in {AfterFrame(s, Timed(Head(run), [dt |-> 166, step |-> 166], s.now))}} : TRUE

\* a new analyzer, nothing called on it
Built == [analyzer |-> DriftAnalyzer_init, now |-> 0, ret |-> "none", frames |-> << >>]

AnalyzerInit ==
  /\ world = [dt |-> 10, time |-> 0, accumulator |-> 0, vehicles |-> << >>]
  /\ calls = 0
  /\ \E run \in FirstFrames :
       /\ component = AfterFrames(Built, run).analyzer
       /\ last = [op |-> "init", raised |-> "none", was |-> DriftAnalyzer_init,
                  now |-> AfterFrames(Built, run).now,
                  frames |-> AfterFrames(Built, run).frames]

\* DriftAnalyzer.update(velocity, orientation, ..., dt, sim_time)
Analyze(f, timing) ==
  /\ calls < MaxFrames
  /\ \E r \in {DriftAnalyzer_update(component, Timed(f, timing, last.now))} :
       /\ component' = r.analyzer
       /\ last' = [op |-> "update", raised |-> "none", was |-> component,
                   args |-> Timed(f, timing, last.now), ret |-> r.metrics,
                   now |-> last.now + timing.step,
                   frames |-> Append(last.frames, FrameRecord(Timed(f, timing, last.now), r.metrics))]
  /\ calls' = calls + 1
  /\ UNCHANGED world

\* DriftAnalyzer.reset()
AnalyzerReset ==
  /\ calls < MaxFrames
  /\ component' = DriftAnalyzer_reset(component)
  /\ last' = [op |-> "reset", raised |-> "none", was |-> component,
              now |-> last.now, frames |-> Append(last.frames, [op |-> "reset"])]
  /\ calls' = calls + 1
  /\ UNCHANGED world

AnalyzerNext ==
  \/ \E f \in Frames, timing \in Timings : Analyze(f, timing)
  \/ AnalyzerReset

AnalyzerSpec == AnalyzerInit /\ [][AnalyzerNext]_vars

(***************************************************************************)
(* Handbrake on its own: set_input and update(dt) called in any order on   *)
(* the handbrake of the sport car.  The caller keeps calling update.       *)
(***************************************************************************)

\* lever positions handed to set_input, some outside [0, 1]
LeverInputs == {-500, 0, 300, 1000, 1500}

\* dt handed to update: none, 1 ms and 0.1 s
HandbrakeDts == {0, 10, 1000}

HandbrakeInit ==
  /\ StandaloneInit
  /\ component = FreshCar(CarConfig_sport).handbrake

\* Handbrake.set_input(input_value)
HandbrakeSetInput(input_value) ==
  /\ component' = Handbrake_set_input(component, input_value)
  /\ last' = [op |-> "set_input", raised |-> "none", was |-> component,
              input_value |-> input_value]
  /\ UNCHANGED <<world, calls>>

\* Handbrake.update(dt)
HandbrakeUpdate(dt) ==
  /\ component' = Handbrake_update(component, CarConfig_sport, dt)
  /\ last' = [op |-> "update", raised |-> "none", was |-> component, dt |-> dt]
  /\ UNCHANGED <<world, calls>>

HandbrakeNext ==
  \/ \E input_value \in LeverInputs : HandbrakeSetInput(input_value)
  \/ \E dt \in HandbrakeDts : HandbrakeUpdate(dt)

\* update is called again and again (Car.physics_step calls it every tick)
HandbrakeSpec ==
  HandbrakeInit /\ [][HandbrakeNext]_vars
    /\ WF_vars(\E dt \in HandbrakeDts : HandbrakeUpdate(dt))

(***************************************************************************)
(* Tire on its own: a sport tire spinning at some rate is updated, and its *)
(* wheel is turned by the torques alone (_update_wheel_rotation).          *)
(***************************************************************************)

\* calls made on one tire
MaxTireCalls == 2

\* wheel spins in 1e-3 rad/s: at rest, below and above the 0.1 rad/s
\* threshold in both directions, and rolling at 10 m/s
TireSpins == {0, 50, -50, 1000, -1000, 31250}

\* normal loads, contact patch velocities, headings and torques handed to update
TireLoads == {-100, 9, 4000}
ContactVelocities == {Zero2, Vec(100000, 10000)}
WheelHeadings == {0, 300}
DriveTorques == {0, 500}
BrakeTorques == {0, 300, 2000}
TireDts == {10, 166}

TireInit ==
  /\ StandaloneInit
  /\ \E omega \in TireSpins : component = [FreshTire EXCEPT !.angular_velocity = omega]

\* Tire.update(contact_velocity, wheel_heading, normal_load, drive_torque,
\* brake_torque, dt) on a sport tire, and get_forces_world after it
TireUpdate(contact_velocity, wheel_heading, normal_load, drive_torque, brake_torque) ==
  /\ calls < MaxTireCalls
  /\ \E t \in {Tire_update(component, TireConfig_sport, contact_velocity, wheel_heading,
                           normal_load, drive_torque, brake_torque, 10)} :
       /\ component' = t
       /\ last' = [op |-> "update", raised |-> "none", was |-> component,
                   normal_load |-> normal_load, drive_torque |-> drive_torque,
                   brake_torque |-> brake_torque, dt |-> 10,
                   ret |-> Tire_get_state(t, contact_velocity),
                   force |-> get_forces_world(t, wheel_heading)]
  /\ calls' = calls + 1
  /\ UNCHANGED world

\* Tire._update_wheel_rotation(drive_torque, brake_torque, dt)
TireWheelRotation(drive_torque, brake_torque, dt) ==
  /\ calls < MaxTireCalls
  /\ component' =
       [component EXCEPT !.angular_velocity =
          update_wheel_rotation(TireConfig_sport, component.angular_velocity,
                                component.Fx, drive_torque, brake_torque, dt)]
  /\ last' = [op |-> "update_wheel_rotation", raised |-> "none", was |-> component,
              drive_torque |-> drive_torque, brake_torque |-> brake_torque, dt |-> dt]
  /\ calls' = calls + 1
  /\ UNCHANGED world

TireNext ==
  \/ \E contact_velocity \in ContactVelocities, wheel_heading \in WheelHeadings,
        normal_load \in TireLoads, drive_torque \in DriveTorques,
        brake_torque \in BrakeTorques :
       TireUpdate(contact_velocity, wheel_heading, normal_load, drive_torque, brake_torque)
  \/ \E drive_torque \in DriveTorques, brake_torque \in BrakeTorques, dt \in TireDts :
       TireWheelRotation(drive_torque, brake_torque, dt)

TireSpec == TireInit /\ [][TireNext]_vars

(***************************************************************************)
(* Car on its own: set_inputs and physics_step(dt) called on a car that    *)
(* stands or rolls at 10 m/s.                                              *)
(***************************************************************************)

\* calls made on one car
MaxCarCalls == 3

\* <<throttle, brake, steer, handbrake>>: accelerating into a right turn,
\* braking into a left turn with the handbrake pulled
CarInputs == {<<800, 0, 500, 0>>, <<0, 600, -300, 1000>>}

CarInit ==
  /\ StandaloneInit
  /\ \E cfg \in {CarConfig_sport, CarConfig_drift} :
       component \in {FreshCar(cfg), set_velocity(FreshCar(cfg), 100000)}

\* Car.set_inputs(throttle, brake, steer, handbrake)
CarSetInputs(inp) ==
  /\ calls < MaxCarCalls
  /\ component' = set_inputs(component, inp[1], inp[2], inp[3], inp[4])
  /\ last' = [op |-> "set_inputs", raised |-> "none", was |-> component, dt |-> 0]
  /\ calls' = calls + 1
  /\ UNCHANGED world

\* dt handed to physics_step: 1 ms and 1/60 s
CarDts == {10, 166}

\* Car.physics_step(dt)
CarPhysicsStep(dt) ==
  /\ calls < MaxCarCalls
  /\ \E r \in {physics_step(component, dt)} :
       /\ component' = r.car
       /\ last' = [op |-> "physics_step", raised |-> r.raised, was |-> component,
                   dt |-> dt]
  /\ calls' = calls + 1
  /\ UNCHANGED world

CarNext ==
  \/ \E inp \in CarInputs : CarSetInputs(inp)
  \/ \E dt \in CarDts : CarPhysicsStep(dt)

CarSpec == CarInit /\ [][CarNext]_vars

(***************************************************************************)
(* World driven frame by frame: step_fixed(real_dt) called again and again *)
(* on a world, empty or holding the sport car.  last.supplied is the real  *)
(* time handed in so far, last.stepped the physics steps returned so far,  *)
(* last.capped whether a call so far stopped at the cap with time left.    *)
(***************************************************************************)

\* step_fixed calls made on one world
MaxFrameCalls == 4

\* real_dt of a frame: none, less than a step, one and a half steps of 1 ms,
\* and forty-five of them
FrameDts == {0, 7, 15, 450}

FrameInit ==
  /\ world \in
       {[dt |-> 10, time |-> 0, accumulator |-> 0, vehicles |-> << >>],
        [dt |-> 25, time |-> 0, accumulator |-> 0, vehicles |-> << >>],
        [dt |-> 10, time |-> 0, accumulator |-> 0,
         vehicles |-> <<FreshCar(CarConfig_sport)>>]}
  /\ calls = 0
  /\ last = [op |-> "init", real_dt |-> 0, ret |-> 0, raised |-> "none",
             ticks |-> << >>, before |-> << >>,
             supplied |-> 0, stepped |-> 0, capped |-> FALSE]
  /\ component = "none"

\* World.step_fixed(real_dt), one frame
StepFrame(real_dt) ==
  /\ calls < MaxFrameCalls
  /\ \E r \in {step_fixed(world, real_dt)} :
       /\ world' = r.world
       /\ last' = [op |-> "step_fixed", real_dt |-> real_dt, ret |-> r.steps,
                   raised |-> r.raised, ticks |-> r.ticks, before |-> world,
                   supplied |-> last.supplied + real_dt,
                   stepped |-> last.stepped + r.steps,
                   capped |-> last.capped
                                \/ (r.steps = 20 /\ r.world.accumulator >= world.dt)]
  /\ calls' = calls + 1
  /\ UNCHANGED component

FrameNext == \E real_dt \in FrameDts : StepFrame(real_dt)

FrameSpec == FrameInit /\ [][FrameNext]_vars

(***************************************************************************)
(* DriftDetector calming down: a detector in any regime is given at most   *)
(* MaxRoughUpdates arbitrary updates and then only updates with a drift    *)
(* angle below 5 deg, 0.5 s or 0.8 s apart.  The caller updates the        *)
(* detector every frame, so the calm updates keep coming; they are         *)
(* followed until the regime clock has run CalmHorizon.                    *)
(***************************************************************************)

\* arbitrary updates made before the calm ones
MaxRoughUpdates == 1

\* how far past the entry of a regime the calm updates are followed: the
\* 1.0 s of Transitioning and the longest time between two updates
CalmHorizon == 18000

\* a drift angle of -4.9 deg with no pedal applied
SlideTiny == Reading(-4900, 100000, 0, 0, 0, 0, 0, 0)

CalmReadings == {CoastOff, SlideTiny}

\* the time from one calm update to the next
CalmSteps == {5000, 8000}

\* the first runs, and runs that end in Initiating, Transitioning and
\* Recovering
RegimeRuns ==
  FirstRuns \cup
    {<<HandbrakeTurn>>,
     <<HandbrakeTurn, SlideWide, SlideLeft>>,
     <<HandbrakeTurn, SlideWide, SlideSmall>>}

CalmingInit ==
  /\ world = [dt |-> 10, time |-> 0, accumulator |-> 0, vehicles |-> << >>]
  /\ calls = 0
  /\ \E run \in RegimeRuns : component = AfterRun(DriftDetector_init, run)
  /\ last = [op |-> "init", raised |-> "none", calm |-> FALSE,
             args |-> At(DriftDetector_init, CoastOff, 0),
             was |-> DriftDetector_init]

\* DriftDetector.update(..., sim_time) with any reading
RoughUpdate(r, step) ==
  /\ ~last.calm
  /\ calls < MaxRoughUpdates
  /\ component' = DriftDetector_update(component, At(component, r, step))
  /\ last' = [op |-> "update", raised |-> "none", calm |-> FALSE,
              args |-> At(component, r, step), was |-> component]
  /\ calls' = calls + 1
  /\ UNCHANGED world

\* DriftDetector.update(..., sim_time) with a drift angle below 5 deg
CalmUpdate(r, step) ==
  /\ component.current_time + step - component.state_start_time <= CalmHorizon
  /\ component' = DriftDetector_update(component, At(component, r, step))
  /\ last' = [op |-> "update", raised |-> "none", calm |-> TRUE,
              args |-> At(component, r, step), was |-> component]
  /\ UNCHANGED <<world, calls>>

CalmUpdates == \E r \in CalmReadings, step \in CalmSteps : CalmUpdate(r, step)

CalmingNext ==
  \/ \E r \in Readings, step \in TimeSteps : RoughUpdate(r, step)
  \/ CalmUpdates

CalmingSpec == CalmingInit /\ [][CalmingNext]_vars /\ WF_vars(CalmUpdates)


(***************************************************************************)
(* Properties                                                              *)
(***************************************************************************)
\* the world the last call was made on
before == last.before

\* the last call was World.step_fixed and it returned
Returned == last.op = "step_fixed" /\ last.raised = "none"

\* the indices of the vehicles that completed a physics step in the last call
Stepped == {i \in DOMAIN last.ticks : last.ticks[i] > 0}

\* the whole steps of dt contained in t, for dt > 0
WholeSteps(t, dt) == IF t < 0 THEN 0 ELSE t \div dt

\* C1: World.step_fixed(real_dt) returns a step count of at most 20, for
\* every real_dt and every prior accumulator content, after any sequence of
\* earlier calls.
C1_StepCountAtMostTwenty ==
  last.op \in {"step_fixed", "update"} => last.ret <= 20

\* a step_fixed call made with a backlog in the accumulator and a real_dt of
\* more than 20 steps returned the cap
C1_Witness ==
  /\ Returned
  /\ before.dt > 0
  /\ before.accumulator > 0
  /\ last.real_dt > 20 * before.dt
  /\ last.ret = 20

\* C2: a step_fixed(real_dt) call with dt > 0 and real_dt >= 0 that returns,
\* returns n = min(20, whole dt in old accumulator + real_dt), advances
\* world.time by n * dt, leaves old accumulator + real_dt - n * dt in the
\* accumulator and has run n physics ticks on every vehicle; on a fresh world
\* step_fixed(10.0) returns 20 and advances time by 20 * dt.
C2_StepFixedArithmetic ==
  (Returned /\ before.dt > 0 /\ last.real_dt >= 0) =>
    /\ last.ret = Min(20, WholeSteps(before.accumulator + last.real_dt, before.dt))
    /\ world.time = before.time + last.ret * before.dt
    /\ world.accumulator = before.accumulator + last.real_dt - last.ret * before.dt
    /\ Len(last.ticks) = Len(world.vehicles)
    /\ \A i \in DOMAIN last.ticks : last.ticks[i] = last.ret
    /\ (before.time = 0 /\ before.accumulator = 0 /\ last.real_dt = 100000) =>
         (last.ret = 20 /\ world.time = 20 * before.dt)

\* step_fixed(10.0) on a world with a vehicle and a backlog in the
\* accumulator ran 20 ticks on the vehicle
C2_Witness ==
  /\ Returned
  /\ before.dt > 0
  /\ before.accumulator > 0
  /\ last.real_dt = 100000
  /\ Len(world.vehicles) > 0
  /\ last.ticks[1] = 20
  /\ world.time > before.time

\* C3: the interpolation alpha accumulator / dt lies in [0, 1) in every state
\* reached by step_fixed calls, also by calls whose real_dt exceeds 20 * dt.
\* Stated for the calls with real_dt >= 0 made on a world whose alpha lies in
\* [0, 1).
C3_AlphaInUnitInterval ==
  (/\ Returned
   /\ last.real_dt >= 0
   /\ get_interpolation_alpha(before) >= 0
   /\ get_interpolation_alpha(before) < MILLI) =>
    (get_interpolation_alpha(world) >= 0 /\ get_interpolation_alpha(world) < MILLI)

\* C4: when world.dt <= 0 or real_dt <= 0, step_fixed returns 0, leaves
\* world.time, the accumulator and every vehicle unchanged, and raises nothing.
C4_NonPositiveStepIsNoOp ==
  (last.op = "step_fixed" /\ (before.dt <= 0 \/ last.real_dt <= 0)) =>
    (last.ret = 0 /\ last.raised = "none" /\ world = before)

\* a freshly constructed world with the vehicles, of the same configurations,
\* freshly constructed
FreshWorld(w) ==
  [w EXCEPT !.time = 0, !.accumulator = 0,
            !.vehicles = SeqMap(LAMBDA v : FreshCar(v.config), w.vehicles)]

\* the results a and b of the same call on two worlds agree, a call that
\* raises ending the trace
SameTrace(a, b) == a.raised = "none" => a = b

\* C6: reset() followed by an input sequence produces the same trace as a
\* freshly constructed world given that input sequence, whatever was applied
\* before the reset.  The sequence is one World.update(0.0015, inputs).
C6_ResetThenInputsMatchesFresh ==
  last.op = "reset" =>
    \A inp \in InputChoices :
      SameTrace(World_update(FreshWorld(world), 15, inp), World_update(world, 15, inp))

\* C7: after World.reset() time and the accumulator are 0 and every vehicle
\* has zero position, velocity, yaw and yaw rate, zero spin and zero filtered
\* forces on all four tires, zero driver inputs and handbrake engagement, and
\* wheel loads equal to the static loads.
C7_ResetState ==
  last.op = "reset" =>
    /\ world.time = 0
    /\ world.accumulator = 0
    /\ \A i \in DOMAIN world.vehicles :
         /\ world.vehicles[i].body.position = Zero2
         /\ world.vehicles[i].body.velocity = Zero2
         /\ world.vehicles[i].body.orientation = 0
         /\ world.vehicles[i].body.angular_velocity = 0
         /\ \A w \in Wheels :
              /\ world.vehicles[i].tires[w].angular_velocity = 0
              /\ world.vehicles[i].tires[w].relax_Fx = 0
              /\ world.vehicles[i].tires[w].relax_Fy = 0
         /\ world.vehicles[i].throttle = 0
         /\ world.vehicles[i].brake = 0
         /\ world.vehicles[i].steer = 0
         /\ world.vehicles[i].hbrake = 0
         /\ world.vehicles[i].handbrake.engagement = 0
         /\ world.vehicles[i].wheel_loads = get_static_loads(world.vehicles[i].config)

\* World.reset() was called on a world whose clock had advanced and whose
\* vehicle was moving and turning, with spinning tires, filtered tire forces
\* and inputs held
C7_Witness ==
  /\ last.op = "reset"
  /\ before.time > 0
  /\ before.accumulator > 0
  /\ Len(before.vehicles) > 0
  /\ before.vehicles[1].body.velocity # Zero2
  /\ before.vehicles[1].body.angular_velocity # 0
  /\ before.vehicles[1].tires.RL.angular_velocity # 0
  /\ before.vehicles[1].tires.RL.relax_Fx # 0
  /\ before.vehicles[1].tires.FL.relax_Fy # 0
  /\ before.vehicles[1].throttle # 0
  /\ before.vehicles[1].steer # 0
  /\ world.vehicles[1].tires.RL.relax_Fx = 0

\* C8: after every physics step the body yaw lies in [-pi, pi].
C8_YawNormalised ==
  \A i \in Stepped :
    /\ world.vehicles[i].body.orientation >= -YAW_PI
    /\ world.vehicles[i].body.orientation <= YAW_PI

\* a physics step ran on a vehicle whose yaw was more than a turn and a half
\* away from 0, and brought it back into the range
C8_Witness ==
  /\ 1 \in Stepped
  /\ before.vehicles[1].body.orientation > 3 * YAW_PI
  /\ world.vehicles[1].body.orientation >= -YAW_PI
  /\ world.vehicles[1].body.orientation <= YAW_PI

\* C9: after any sequence of set_inputs calls with arbitrary arguments the
\* stored throttle, brake and handbrake lie in [0, 1] and the stored steer in
\* [-1, 1], and the values pushed to the steering and handbrake targets by the
\* next step lie in the same ranges.
C9_InputsClamped ==
  \A i \in DOMAIN world.vehicles :
    /\ world.vehicles[i].throttle \in 0..MILLI
    /\ world.vehicles[i].brake \in 0..MILLI
    /\ world.vehicles[i].hbrake \in 0..MILLI
    /\ world.vehicles[i].steer \in (-MILLI)..MILLI
    /\ world.vehicles[i].steering.target_input \in (-MILLI)..MILLI
    /\ world.vehicles[i].handbrake.target \in 0..MILLI

\* inputs outside their ranges were set and a physics step pushed the clamped
\* values to the steering and handbrake targets
C9_Witness ==
  /\ last.op = "update"
  /\ last.inputs[1] > MILLI
  /\ last.inputs[2] < 0
  /\ last.inputs[3] < -MILLI
  /\ last.inputs[4] > MILLI
  /\ 1 \in Stepped
  /\ world.vehicles[1].throttle = MILLI
  /\ world.vehicles[1].brake = 0
  /\ world.vehicles[1].steering.target_input = -MILLI
  /\ world.vehicles[1].handbrake.target = MILLI

\* C10: once a vehicle is constructed, physics_step never raises, for every
\* dt and every input sequence.
C10_StepNeverRaises == last.raised = "none"



\* what the error taxonomy calls a valid configuration: positive mass and
\* inertia, positive wheelbase and tracks, the centre of gravity strictly
\* between the axles, a positive tire radius
ValidConfig(cfg) ==
  /\ cfg.mass > 0 /\ cfg.inertia > 0
  /\ cfg.wheelbase > 0 /\ cfg.track_front > 0 /\ cfg.track_rear > 0
  /\ cfg.cg_to_front > 0 /\ cfg.cg_to_front < cfg.wheelbase
  /\ cfg.tire_config.radius > 0

\* C11: constructing a vehicle from an invalid configuration fails at
\* construction, and no vehicle object is built from it.
C11_InvalidConfigNotBuilt ==
  (last.op = "Car" /\ ~ValidConfig(last.config)) =>
     (last.raised # "none" /\ component = "none")

\* the preset names the interface lists
ListedTireNames == {"sport", "drift", "rain", "street", "semi_slick"}
ListedVehicleNames ==
  {"sport_coupe", "drift_car", "muscle", "hot_hatch", "formula", "touring"}

\* a record with every field of a TireConfig / of a CarConfig
PopulatedTire(c) == DOMAIN c = DOMAIN TireConfig_sport
PopulatedCar(c) ==
  DOMAIN c = DOMAIN CarConfig_sport /\ PopulatedTire(c.tire_config)

\* the names a raised error enumerates
Enumerated == {last.available[i] : i \in DOMAIN last.available}

\* C12: get_vehicle_config and get_tire_config return a populated
\* configuration for every listed name; for every other name they raise an
\* error that enumerates the available names, and return nothing.
C12_PresetFactories ==
  /\ last.op = "get_tire_config" =>
       IF last.preset_name \in ListedTireNames
         THEN last.raised = "none" /\ PopulatedTire(component)
         ELSE /\ last.raised = "ValueError" /\ component = "none"
              /\ Enumerated = ListedTireNames
  /\ last.op = "get_vehicle_config" =>
       IF last.preset_name \in ListedVehicleNames
         THEN last.raised = "none" /\ PopulatedCar(component)
         ELSE /\ last.raised = "ValueError" /\ component = "none"
              /\ Enumerated = ListedVehicleNames

\* the vehicle factory was asked for the name of a tire preset and raised
C12_Witness ==
  /\ last.op = "get_vehicle_config" /\ last.preset_name = "sport"
  /\ last.raised = "ValueError" /\ Len(last.available) = 6


\* the car rolls straight at a set speed with no input: it is as
\* set_velocity(speed) left a newly built car
RollingFree(car) ==
  \E speed \in Speeds : car = set_velocity(FreshCar(car.config), speed)

\* the four wheel loads add up to the weight within 1 N, and the front and
\* the rear axle carry their static shares within 0.1 %
LoadsStatic(car) ==
  /\ Abs(car.wheel_loads.FL + car.wheel_loads.FR + car.wheel_loads.RL
         + car.wheel_loads.RR - total_weight(car.config)) <= 1
  /\ Abs(car.wheel_loads.FL + car.wheel_loads.FR - front_weight(car.config)) * MILLI
       <= front_weight(car.config) + MILLI
  /\ Abs(car.wheel_loads.RL + car.wheel_loads.RR - rear_weight(car.config)) * MILLI
       <= rear_weight(car.config) + MILLI

\* C13: when a car set rolling by set_velocity(v) is stepped with every input
\* at zero, after the ticks its wheel loads add up to m * g within 1 N and
\* each axle carries its static share within 0.1 %.
C13_RollingLoadsStatic ==
  \A i \in Stepped :
    (last.raised = "none" /\ RollingFree(before.vehicles[i])
       /\ last.inputs = NoInputs)
      => LoadsStatic(world.vehicles[i])


\* C14: mirroring the steering input mirrors the wheel angles:
\* get_wheel_angles(-u) is <<-right(u), -left(u)>>, for every input u and
\* every Ackermann factor, on the small-angle and on the large-angle branch.
C14_MirroredSteering ==
  last.op = "get_wheel_angles" =>
    get_wheel_angles(component.config, -last.steer_input)
      = <<-last.ret[2], -last.ret[1]>>


\* the force F as a fraction of the peak force, in MILLI (capped at 30)
OfPeak(F, peak) ==
  IF F = 0 THEN 0
  ELSE IF peak = 0 THEN 30 * MILLI
  ELSE Min(30 * MILLI, Div(Abs(F) * MILLI, peak))

\* (Fx / Fx_peak)^2 + (Fy / Fy_peak)^2 <= 1, within the 1 % that the
\* rounding of the forces to whole newtons can add
InEllipse(F, Fx_peak, Fy_peak) ==
  OfPeak(F[1], Fx_peak) * OfPeak(F[1], Fx_peak)
    + OfPeak(F[2], Fy_peak) * OfPeak(F[2], Fy_peak) <= MILLI * MILLI + 10 * MILLI

\* C15: for every slip ratio, slip angle and load, the forces that calculate
\* returns with friction multiplier 1 lie inside the friction ellipse of the
\* peak forces, for each of the methods simple, vector and empirical.
C15_InsideFrictionEllipse ==
  last.op = "calculate" =>
    InEllipse(last.ret, get_peak_longitudinal_force(component.pacejka_params, last.Fz),
              get_peak_lateral_force(component.pacejka_params, last.Fz))


\* the filtered force went from F (1e-3 N) to G without moving away from the
\* target (N) and without passing it
Approached(F, G, target) ==
  /\ Abs(target * MILLI - G) <= Abs(target * MILLI - F)
  /\ (target * MILLI - F >= 0) => (target * MILLI - G >= 0)
  /\ (target * MILLI - F <= 0) => (target * MILLI - G <= 0)

\* C16: an update with dt >= 0 and a positive time constant leaves the
\* filtered force no further from the target than it was, and never beyond
\* it, for update and for update_simple, on both axes.
C16_ErrorNonIncreasing ==
  last.op \in {"update", "update_simple"} =>
    /\ Approached(last.was.Fx, component.Fx, last.target_Fx)
    /\ Approached(last.was.Fy, component.Fy, last.target_Fy)

\* a filter that had left zero was updated by update_simple over a step
\* longer than its time constant, and reached a target other than zero
C16_Witness ==
  /\ last.op = "update_simple" /\ last.dt = 20000 /\ last.was.Fx # 0
  /\ component.Fx = last.target_Fx * MILLI /\ last.target_Fx # 0


\* the changes of regime the state machine allows
Edges ==
  {<<"straight", "initiating">>, <<"initiating", "straight">>,
   <<"initiating", "drifting">>, <<"drifting", "transitioning">>,
   <<"drifting", "recovering">>, <<"transitioning", "drifting">>,
   <<"transitioning", "recovering">>, <<"recovering", "drifting">>,
   <<"recovering", "straight">>}

\* C17: one update changes the regime at most once, and only along the
\* listed edges (so never from Straight to Drifting); the entry time becomes
\* sim_time on the updates that change the regime and is kept on the others.
C17_RegimeEdges ==
  last.op = "update" =>
    IF component.state = last.was.state
      THEN component.state_start_time = last.was.state_start_time
      ELSE /\ <<last.was.state, component.state>> \in Edges
           /\ component.state_start_time = last.args.sim_time

\* an update moved a drifting detector to Transitioning at a later time
C17_Witness ==
  /\ last.op = "update" /\ last.was.state = "drifting"
  /\ component.state = "transitioning"
  /\ last.args.sim_time > last.was.state_start_time

\* the time since the detector entered its regime, at the last update
Elapsed == last.args.sim_time - last.was.state_start_time

\* C18 as stated: while Initiating, an update moves the detector to Drifting
\* whenever more than 0.3 s have passed since the entry or |beta| > 15 deg,
\* and back to Straight if |beta| < 7 deg.
C18_InitiatingAsStated ==
  (last.op = "update" /\ last.was.state = "initiating") =>
    /\ (Elapsed > 3000 \/ Abs(last.args.drift_angle) > 15000)
         => component.state = "drifting"
    /\ Abs(last.args.drift_angle) < 7000 => component.state = "straight"

\* C18, amended: while Initiating, an update with |beta| < 7 deg moves the
\* detector back to Straight, however long ago it entered; an update with
\* |beta| >= 7 deg moves it to Drifting whenever more than 0.3 s have passed
\* since the entry or |beta| > 15 deg, and otherwise leaves it Initiating.
C18_InitiatingOutcome ==
  (last.op = "update" /\ last.was.state = "initiating") =>
    component.state =
      IF Abs(last.args.drift_angle) < 7000 THEN "straight"
      ELSE IF Elapsed > 3000 \/ Abs(last.args.drift_angle) > 15000 THEN "drifting"
      ELSE "initiating"

\* an update with |beta| < 7 deg, made more than 0.3 s after the entry to
\* Initiating, moved the detector back to Straight
C18_Witness ==
  /\ last.op = "update" /\ last.was.state = "initiating"
  /\ Elapsed > 3000 /\ Abs(last.args.drift_angle) < 7000
  /\ component.state = "straight"

\* the sign of beta when |beta| > 10 deg, else none (0)
DirectionOf(beta) == IF beta > 10000 THEN 1 ELSE IF beta < -10000 THEN -1 ELSE 0

\* the direction of the last update is opposite to the one recorded before
Flipped ==
  DirectionOf(last.args.drift_angle) * last.was.prev_drift_direction = -1

\* C19: while Drifting, an update whose drift direction is opposite to the
\* one the previous update recorded moves the detector to Transitioning, and
\* one with |beta| < 7 deg moves it to Recovering; the two cases exclude each
\* other, and no other update changes the regime.
C19_DriftingOutcome ==
  (last.op = "update" /\ last.was.state = "drifting") =>
    /\ ~(Flipped /\ Abs(last.args.drift_angle) < 7000)
    /\ last.was.prev_drift_direction = DirectionOf(last.was.prev_drift_angle)
    /\ component.state =
         IF Flipped THEN "transitioning"
         ELSE IF Abs(last.args.drift_angle) < 7000 THEN "recovering"
         ELSE "drifting"

\* a detector drifting to the right was updated with a drift to the left
C19_Witness ==
  /\ last.op = "update" /\ last.was.state = "drifting"
  /\ last.was.prev_drift_direction = 1 /\ last.args.drift_angle < -10000
  /\ component.state = "transitioning"

\* twice the average of the magnitudes of the two rear, and front, slips
RearSlip == Abs(last.args.rear_slip_L) + Abs(last.args.rear_slip_R)
FrontSlip == Abs(last.args.front_slip_L) + Abs(last.args.front_slip_R)

\* the last n samples of a history before its last skip samples
Samples(history, n, skip) ==
  SubSeq(history, Len(history) - skip - n + 1, Len(history) - skip)

\* the steering history holds ten samples, and the last five and the five
\* before them average to opposite signs more than 0.5 apart
FeintRule(history) ==
  /\ Len(history) >= 10
  /\ SumSeq(Samples(history, 5, 0)) * SumSeq(Samples(history, 5, 5)) < 0
  /\ Abs(SumSeq(Samples(history, 5, 0)) - SumSeq(Samples(history, 5, 5))) * 2
       > 5 * MILLI

\* the throttle history holds six samples, the three before the last three
\* average above 0.5 and the last three below 0.2
LiftOffRule(history) ==
  /\ Len(history) >= 6
  /\ SumSeq(Samples(history, 3, 3)) * 2 > 3 * MILLI
  /\ SumSeq(Samples(history, 3, 0)) * 5 < 3 * MILLI

\* the first rule that matches, in the order Handbrake, PowerOver, Braking,
\* Feint, LiftOff, the histories holding the sample of the update
FirstRule ==
  IF last.args.handbrake > 500 /\ RearSlip > 2 * 8000 THEN "handbrake"
  ELSE IF last.args.throttle > 700 /\ RearSlip >= FrontSlip + 2 * 5000
    THEN "power_over"
  ELSE IF last.args.brake > 300 /\ RearSlip > 2 * 8000 THEN "braking"
  ELSE IF FeintRule(Append(last.was.steer_history, last.args.steer)) THEN "feint"
  ELSE IF LiftOffRule(Append(last.was.throttle_history, last.args.throttle))
    THEN "lift_off"
  ELSE "none"

\* C20: on every entry to Initiating the initiation tag is the first rule
\* that matches in the order Handbrake, PowerOver (rear slip at least 5 deg
\* above front slip), Braking, Feint (last 5 steering samples against the 5
\* before), LiftOff (the 3 throttle samples before the last 3 averaging above
\* 0.5, the last 3 below 0.2), else None, the sample of the update included.
C20_FirstMatchingRule ==
  (last.op = "update" /\ last.was.state = "straight"
     /\ component.state = "initiating")
    => component.initiation = FirstRule

(***************************************************************************)
(* DriftAnalyzer: the drift run, read off the record of the calls          *)
(***************************************************************************)
\* the frame fr is in the drift regime: an update with |beta| > 10 deg and
\* speed > 5 m/s
InRegime(fr) == fr.op = "update" /\ Abs(fr.drift_angle) > 10000 /\ fr.speed > 50000

RECURSIVE RunStart(_, _)
\* the first frame of the unbroken run of drift frames that ends at frame n
RunStart(frames, n) ==
  IF n = 1 \/ ~InRegime(frames[n - 1]) THEN n ELSE RunStart(frames, n - 1)

RECURSIVE RunDistance(_, _, _)
\* the sum of speed * dt over the frames k..n
RunDistance(frames, k, n) ==
  IF k > n THEN 0
  ELSE MulDiv(frames[k].speed, frames[k].dt, TU_PER_SEC) + RunDistance(frames, k + 1, n)

\* the frame of the last call
ThisFrame == last.frames[Len(last.frames)]

\* C21: a frame is in the drift regime exactly when |beta| > 10 deg and
\* speed > 5 m/s; outside the regime update reports a drift_duration and a
\* drift_distance of 0; inside, drift_duration is sim_time minus the sim_time
\* of the first frame of the current unbroken run of drift frames, and
\* drift_distance is the sum of speed * dt over the frames of that run.
C21_DriftRun ==
  last.op = "update" =>
    /\ last.ret.is_drifting <=> InRegime(ThisFrame)
    /\ ~InRegime(ThisFrame) =>
         last.ret.drift_duration = 0 /\ last.ret.drift_distance = 0
    /\ InRegime(ThisFrame) =>
         /\ last.ret.drift_duration =
              ThisFrame.sim_time
                - last.frames[RunStart(last.frames, Len(last.frames))].sim_time
         /\ last.ret.drift_distance =
              RunDistance(last.frames, RunStart(last.frames, Len(last.frames)),
                          Len(last.frames))

\* a third frame of a drift that began after an earlier drift had ended, with
\* time and distance gained
C21_Witness ==
  /\ last.op = "update"
  /\ InRegime(ThisFrame)
  /\ RunStart(last.frames, Len(last.frames)) > 2
  /\ Len(last.frames) - RunStart(last.frames, Len(last.frames)) >= 2
  /\ \E k \in 1..Len(last.frames) :
       k < RunStart(last.frames, Len(last.frames)) /\ InRegime(last.frames[k])
  /\ last.ret.drift_duration > 0
  /\ last.ret.drift_distance > 0

\* C22: the overall_score returned by update lies in [0, 100], and is 0 on
\* every frame on which is_drifting is false.
C22_ScoreRange ==
  last.op = "update" =>
    /\ last.ret.overall_score >= 0
    /\ last.ret.overall_score <= 100 * MILLI
    /\ ~last.ret.is_drifting => last.ret.overall_score = 0

\* a drift frame whose weighted sum exceeds 1 and is reported as 100
C22_Witness ==
  /\ last.op = "update"
  /\ last.ret.is_drifting
  /\ raw_score(last.ret) > MILLI
  /\ last.ret.overall_score = 100 * MILLI

\* C23: the angle_score, speed_score and angle_stability returned by update
\* each lie in [0, 1].
C23_QualityInUnitInterval ==
  last.op = "update" =>
    /\ last.ret.angle_score >= 0 /\ last.ret.angle_score <= MILLI
    /\ last.ret.speed_score >= 0 /\ last.ret.speed_score <= MILLI
    /\ last.ret.angle_stability >= 0 /\ last.ret.angle_stability <= MILLI

(***************************************************************************)
(* Handbrake                                                               *)
(***************************************************************************)
\* the engagement is in [0, 1], and an update has moved it toward the target
\* by at most 10 * dt rising and 15 * dt falling, not beyond the target
EngagementLimited ==
  /\ component.engagement >= 0 /\ component.engagement <= MILLI
  /\ (last.op = "update" /\ last.was.target > last.was.engagement) =>
       /\ component.engagement >= last.was.engagement
       /\ component.engagement - last.was.engagement <= Div(10 * last.dt * MILLI, TU_PER_SEC)
       /\ component.engagement <= last.was.target
  /\ (last.op = "update" /\ last.was.target <= last.was.engagement) =>
       /\ component.engagement <= last.was.engagement
       /\ last.was.engagement - component.engagement <= Div(15 * last.dt * MILLI, TU_PER_SEC)
       /\ component.engagement >= last.was.target

\* the values set_input leaves as the target
LeverTargets == {0, 300, MILLI}

\* C24 as stated: for dt >= 0 the engagement stays in [0, 1], each update
\* moves it toward the target by at most 10 * dt rising and 15 * dt falling
\* without overshooting, and with a constant target the engagement reaches
\* the target after finitely many updates and then stays there.
C24_EngagementAsStated ==
  /\ []EngagementLimited
  /\ \A target \in LeverTargets :
       <>[](component.target = target) => <>[](component.engagement = target)

\* C24, amended: the engagement reaches a constant target and stays there
\* provided updates with dt > 0 keep being made; the limits hold for dt >= 0.
C24_EngagementReachesTarget ==
  /\ []EngagementLimited
  /\ \A target \in LeverTargets :
       ([]<>(last.op = "update" /\ last.dt > 0) /\ <>[](component.target = target))
         => <>[](component.engagement = target)

\* an update of 1 ms that brings a falling engagement down onto its target
C24_Witness ==
  /\ last.op = "update"
  /\ last.dt = 10
  /\ last.was.target = 300
  /\ last.was.engagement > 300
  /\ last.was.engagement - 300 < 15
  /\ component.engagement = 300

(***************************************************************************)
(* Tire                                                                    *)
(***************************************************************************)
\* C25: an update with a normal load below 10 N (a negative load counts as
\* 0) returns without an error with the tire's Fx and Fy and its world-frame
\* force at zero, and leaves the wheel spin, the rotation angle, the cached
\* slip state and the forces held by the relaxation filter as they were.
C25_UnloadedTire ==
  (last.op = "update" /\ Max(0, last.normal_load) < 10) =>
    /\ last.raised = "none"
    /\ component.Fx = 0 /\ component.Fy = 0
    /\ last.ret.Fx = 0 /\ last.ret.Fy = 0
    /\ last.force = Zero2
    /\ component.angular_velocity = last.was.angular_velocity
    /\ component.rotation_angle = last.was.rotation_angle
    /\ component.slip_ratio = last.was.slip_ratio
    /\ component.slip_angle = last.was.slip_angle
    /\ component.slip_angle_deg = last.was.slip_angle_deg
    /\ component.relax_Fx = last.was.relax_Fx
    /\ component.relax_Fy = last.was.relax_Fy

\* a braked update with 9 N of load on a tire that a loaded update had left
\* spinning, turned, slipping and with forces in its filter
C25_Witness ==
  /\ last.op = "update"
  /\ last.normal_load = 9
  /\ last.brake_torque > 0
  /\ last.was.Fx # 0 /\ last.was.Fy # 0
  /\ last.was.relax_Fx # 0 /\ last.was.relax_Fy # 0
  /\ last.was.angular_velocity # 0 /\ last.was.rotation_angle # 0
  /\ last.was.slip_ratio # 0 /\ last.was.slip_angle # 0
  /\ component.Fx = 0 /\ component.Fy = 0

\* the sign of a wheel spin
SpinSign(omega) == IF omega > 0 THEN 1 ELSE IF omega < 0 THEN -1 ELSE 0

\* C26: with positive brake torque, no drive torque and no longitudinal tire
\* force, the wheel spin after the update has the sign it had before or is
\* zero, whatever the starting spin, the brake torque and dt.
C26_BrakeStopsAtRest ==
  (/\ last.op = "update_wheel_rotation"
   /\ last.brake_torque > 0 /\ last.drive_torque = 0 /\ last.was.Fx = 0) =>
    \/ component.angular_velocity = 0
    \/ SpinSign(component.angular_velocity) = SpinSign(last.was.angular_velocity)

(***************************************************************************)
(* Car.physics_step: the order of the sub-steps                            *)
(***************************************************************************)
\* the car new is what one physics_step of dt makes of the car old when the
\* sub-steps run in this order: steering and handbrake advance; the
\* accelerations are estimated and the wheel loads computed from them; the
\* drive and brake torques are computed from the rear wheel spins and the
\* engine speed of old; the four tires are updated against the pose and the
\* velocities of old's body; their forces and the drag are accumulated and
\* the body integrated once, which clears the accumulators; the engine speed
\* is updated from the rear spins of new
InOrder(old, new, cfg, dt) ==
  LET yaw == YawMrad(old.body.orientation)
      arm == [w \in Wheels |-> wheel_arm(cfg, w, Cos(yaw), Sin(yaw))]
      angles == get_wheel_angles(cfg, new.steering.current_input)
      heading == [FL |-> yaw + angles[1], FR |-> yaw + angles[2], RL |-> yaw, RR |-> yaw]
      drive == get_drive_torques(cfg, old.engine_rpm, old.throttle,
                                 old.tires.RL.angular_velocity,
                                 old.tires.RR.angular_velocity)
      brakes == get_brake_torques(cfg, old.brake)
      hb_torque == Handbrake_base_torque(new.handbrake, cfg)
      drive_of == [FL |-> 0, FR |-> 0, RL |-> drive[1], RR |-> drive[2]]
      brake_of == [FL |-> brakes.FL, FR |-> brakes.FR,
                   RL |-> brakes.RL + hb_torque, RR |-> brakes.RR + hb_torque]
      estimated == update_accelerations(old, dt)
      fw == [w \in Wheels |-> get_forces_world(new.tires[w], heading[w])]
      drag == air_resistance(old.body.velocity)
  IN /\ new.steering = Steering_update(Steering_set_input(old.steering, old.steer), cfg, dt)
     /\ new.handbrake.engagement =
          Handbrake_update(Handbrake_set_input(old.handbrake, old.hbrake), cfg, dt).engagement
     /\ new.longitudinal_accel = estimated.longitudinal_accel
     /\ new.lateral_accel = estimated.lateral_accel
     /\ new.prev_velocity = estimated.prev_velocity
     /\ new.wheel_loads =
          calculate_loads_simple(cfg, new.longitudinal_accel, new.lateral_accel)
     /\ \A w \in Wheels :
          new.tires[w] =
            Tire_update(old.tires[w], cfg.tire_config,
                        get_velocity_at_point(old.body, arm[w]), heading[w],
                        new.wheel_loads[w], drive_of[w], brake_of[w], dt)
     /\ new.body =
          integrate([old.body EXCEPT
                       !.force = Vec(old.body.force.x + fw.FL.x + fw.FR.x + fw.RL.x
                                       + fw.RR.x + drag.x,
                                     old.body.force.y + fw.FL.y + fw.FR.y + fw.RL.y
                                       + fw.RR.y + drag.y),
                       !.torque = old.body.torque
                                    + arm_torque(arm.FL, fw.FL) + arm_torque(arm.FR, fw.FR)
                                    + arm_torque(arm.RL, fw.RL) + arm_torque(arm.RR, fw.RR)],
                    cfg.mass, cfg.inertia, dt)
     /\ new.body.force = Zero2 /\ new.body.torque = 0
     /\ new.engine_rpm =
          update_engine_rpm(cfg, old.engine_rpm,
                            Div(new.tires.RL.angular_velocity
                                + new.tires.RR.angular_velocity, 2), dt)

\* C27: within one physics_step the sub-steps run in the fixed order:
\* steering and handbrake advance; accelerations are estimated and wheel loads
\* computed; drive and brake torques are computed from the rear wheel spins
\* and engine RPM left by the previous tick; all four tires are updated
\* against the same body pose and velocities; forces and drag are
\* accumulated; the body is integrated once; the accumulators are cleared;
\* engine RPM is updated last from the new rear spins.
C27_SubStepOrder ==
  (last.op = "physics_step" /\ last.raised = "none") =>
    InOrder(last.was, component, component.config, last.dt)

\* one physics step of a moving car under throttle and steering that changed
\* the steering, the rear wheel spins, the engine speed and the body's
\* velocity, and left the engine at another speed than the rear wheels'
\* earlier spins would have
C27_Witness ==
  /\ last.op = "physics_step" /\ last.raised = "none"
  /\ last.was.throttle > 0
  /\ last.was.body.velocity # Zero2
  /\ component.steering # last.was.steering
  /\ component.tires.RL.angular_velocity # last.was.tires.RL.angular_velocity
  /\ component.body.velocity # last.was.body.velocity
  /\ component.engine_rpm # last.was.engine_rpm
  /\ component.engine_rpm #
       update_engine_rpm(component.config, last.was.engine_rpm,
                         Div(last.was.tires.RL.angular_velocity
                             + last.was.tires.RR.angular_velocity, 2), last.dt)

(***************************************************************************)
(* World.step_fixed: the backlog behind the cap                            *)
(***************************************************************************)
\* C28: a step_fixed call that stops at the cap of 20 steps leaves the
\* unprocessed time in the accumulator; every later call, also one with
\* real_dt = 0, runs up to 20 further steps until the accumulator is below
\* dt; and once the backlog is drained the physics steps of all the calls
\* together are the whole dt in the real time supplied.
C28_BacklogKept ==
  last.op = "step_fixed" =>
    /\ world.accumulator = last.before.accumulator + last.real_dt - last.ret * last.before.dt
    /\ last.ret = Min(20, WholeSteps(last.before.accumulator + last.real_dt, last.before.dt))
    /\ \A i \in DOMAIN last.ticks : last.ticks[i] = last.ret
    /\ world.accumulator < world.dt =>
         last.stepped = WholeSteps(last.supplied, world.dt)

\* a call with real_dt = 0 that ran the last steps of a backlog an earlier
\* call had left behind the cap, on a world with a vehicle
C28_Witness ==
  /\ last.op = "step_fixed"
  /\ last.capped
  /\ last.real_dt = 0
  /\ last.ret > 0 /\ last.ret < 20
  /\ world.accumulator < world.dt
  /\ last.stepped > 40
  /\ Len(world.vehicles) > 0
  /\ last.ticks[1] = last.ret

(***************************************************************************)
(* DriftDetector: the initiation tag                                       *)
(***************************************************************************)
\* C29: a detector in Straight has the initiation tag None; an update or a
\* reset changes the tag only when the update enters Initiating from
\* Straight, or when the update enters Straight or the detector is reset,
\* which leave it None; through Drifting, Transitioning and Recovering the
\* tag is kept.
C29_InitiationTag ==
  /\ component.state = "straight" => component.initiation = "none"
  /\ last.op \in {"update", "reset"} =>
       \/ component.initiation = last.was.initiation
       \/ /\ last.op = "update"
          /\ last.was.state = "straight" /\ component.state = "initiating"
       \/ /\ last.op = "update"
          /\ last.was.state # "straight" /\ component.state = "straight"
          /\ component.initiation = "none"
       \/ last.op = "reset" /\ component.initiation = "none"

\* a drift started with the handbrake has gone from Drifting to Recovering
\* and still carries its tag
C29_Witness ==
  /\ last.op = "update"
  /\ last.was.state = "drifting" /\ component.state = "recovering"
  /\ last.was.initiation = "handbrake" /\ component.initiation = "handbrake"

(***************************************************************************)
(* DriftDetector: back to Straight                                         *)
(***************************************************************************)
\* the regime changes an update with a drift angle below 5 deg may make
CalmChange(was, now, sim_time) ==
  \/ now.state = was.state /\ now.state_start_time = was.state_start_time
  \/ was.state = "initiating" /\ now.state = "straight"
  \/ was.state = "drifting" /\ now.state = "recovering"
  \/ /\ was.state = "transitioning" /\ now.state = "recovering"
     /\ sim_time - was.state_start_time > 10000
  \/ /\ was.state = "recovering" /\ now.state = "straight"
     /\ sim_time - was.state_start_time > 5000

\* C30: whatever the regime, once every update has a drift angle below 5 deg
\* and the time of the updates keeps growing the detector reaches Straight;
\* on the way Transitioning gives way to Recovering only after more than
\* 1.0 s and Recovering to Straight only after more than 0.5 s; and an
\* update with a drift angle of at most 10 deg leaves a detector in Straight
\* in Straight.
C30_SettlesStraight ==
  /\ last.calm ~> (component.state = "straight")
  /\ [][/\ last'.calm => CalmChange(component, component', last'.args.sim_time)
        /\ (component.state = "straight"
            /\ Abs(last'.args.drift_angle) <= DRIFT_ANGLE_THRESHOLD)
             => component'.state = "straight"]_vars

\* a second calm update has taken a drift started with the handbrake from
\* Recovering to Straight; the update before the two had a drift angle
\* beyond 10 deg to the left
C30_Witness ==
  /\ last.calm
  /\ last.was.state = "recovering" /\ component.state = "straight"
  /\ last.was.initiation = "handbrake"
  /\ Len(component.angle_history) > 4
  /\ Abs(component.angle_history[Len(component.angle_history) - 1]) < 5000
  /\ Abs(component.angle_history[Len(component.angle_history) - 2]) < 5000
  /\ component.angle_history[Len(component.angle_history) - 3] < -DRIFT_ANGLE_THRESHOLD

====
